---- MODULE Spec2Model ----
(***************************************************************************)
(* A model of the payroll calculator core: the expression sandbox          *)
(* (safe_eval.py), the rule compilers and registry (rules.py), the         *)
(* document loader (loader.py) and the payroll engine (engine.py).         *)
(*                                                                         *)
(* Formula strings are modelled by the syntax tree ast.parse gives them;   *)
(* Python values are tagged records; amounts are integers.                 *)
(***************************************************************************)
EXTENDS Integers, Sequences, FiniteSets, TLC

VARIABLES
    sbExpr,      \* sandbox: the formula handed to compile_safe_expr / safe_eval
    sbEntry,     \* sandbox: which public helper was called ("none" before the call)
    sbClosure,   \* sandbox: what compile_safe_expr returned (closure, error, or nothing yet)
    sbEvals,     \* sandbox: how many times eval() ran on the formula's code
    sbValue,     \* sandbox: the value (or raised error) of the last evaluation
    sbSeen,      \* sandbox: history of eval(): each environment with what it gave
    document,    \* loader: the decoded document {variables, rules}
    loadPc,      \* loader: index of the next declaration of rule_specs
    compiled,    \* loader: the list `compiled` built so far
    loadState,   \* loader: "loading" | "loaded" | "failed"
    loadError,   \* loader: the exception load_rules raised
    rules,       \* engine: PayrollEngine.rules
    runState,    \* engine: "idle" | "running" | "done" | "error"
    ctx,         \* engine: ctx = {gross, flags} of the current run
    pos,         \* engine: index of the next rule of `for rule in self.rules`
    breakdown,   \* engine: the dict `breakdown`, in insertion order
    employee_total,
    employer_total,
    result,      \* engine: what run returned
    runError,    \* engine: the exception run raised
    log,         \* history of the formula evaluations of the current run
    aborted,     \* history: an earlier run of this engine raised
    other,       \* a second run(): its local variables, on the same engine
    fnIn,        \* the arguments of a function called on its own
    fnCall,      \* which function was called on them ("none" before the call)
    fnOut        \* what it returned or raised

sbVars == <<sbExpr, sbEntry, sbClosure, sbEvals, sbValue, sbSeen>>
loadVars == <<document, loadPc, compiled, loadState, loadError>>
runVars == <<rules, runState, ctx, pos, breakdown, employee_total, employer_total,
             result, runError, log, aborted>>
fnVars == <<fnIn, fnCall, fnOut>>
vars == <<sbExpr, sbEntry, sbClosure, sbEvals, sbValue, sbSeen,
          document, loadPc, compiled, loadState, loadError,
          rules, runState, ctx, pos, breakdown, employee_total, employer_total,
          result, runError, log, aborted, other, fnIn, fnCall, fnOut>>

(***************************************************************************)
(* Bounds of the model.                                                    *)
(***************************************************************************)
MaxDepth == 2
MaxRules == 3
MaxCalls == 2

(***************************************************************************)
(* Syntax trees (Python's ast module, mode="eval").                        *)
(***************************************************************************)
Load == [kind |-> "Load"]
OpNode(k) == [kind |-> k]
Num(n) == [kind |-> "Constant", num |-> n]
Str(s) == [kind |-> "Constant", str |-> s]
Name(id) == [kind |-> "Name", id |-> id, ctx |-> Load]
BinOp(l, op, r) == [kind |-> "BinOp", left |-> l, op |-> OpNode(op), right |-> r]
UnaryOp(op, e) == [kind |-> "UnaryOp", op |-> OpNode(op), operand |-> e]
BoolOp(op, a, b) == [kind |-> "BoolOp", op |-> OpNode(op), values |-> <<a, b>>]
Compare(l, op, r) ==
    [kind |-> "Compare", left |-> l, ops |-> <<OpNode(op)>>, comparators |-> <<r>>]
Call(f, args) == [kind |-> "Call", func |-> f, args |-> args, keywords |-> <<>>]
Keyword(a, v) == [kind |-> "keyword", arg |-> a, value |-> v]
CallKw(f, args, kws) == [kind |-> "Call", func |-> f, args |-> args, keywords |-> kws]
Attribute(v, a) == [kind |-> "Attribute", value |-> v, attr |-> a, ctx |-> Load]
Subscript(v, s) == [kind |-> "Subscript", value |-> v, slice |-> s, ctx |-> Load]
Slice(lo, hi) == [kind |-> "Slice", lower |-> lo, upper |-> hi]
List(es) == [kind |-> "List", elts |-> es, ctx |-> Load]
Tuple(es) == [kind |-> "Tuple", elts |-> es, ctx |-> Load]
Dict(k, v) == [kind |-> "Dict", keys |-> <<k>>, values |-> <<v>>]
IfExp(t, b, e) == [kind |-> "IfExp", test |-> t, body |-> b, orelse |-> e]
Lambda(b) == [kind |-> "Lambda", args |-> [kind |-> "arguments"], body |-> b]
Expression(b) == [kind |-> "Expression", body |-> b]

\* A formula given as a string that ast.parse cannot parse (e.g. "1 +").
Unparsable == [unparsable |-> TRUE]
\* A formula given as a non-string value (a literal number in the document).
Lit(n) == [lit |-> n]
IsStr(expr) == "lit" \notin DOMAIN expr

\* ast.iter_child_nodes: the child nodes of a node, in field order.
Children(n) ==
    CASE n.kind = "Expression" -> <<n.body>>
      [] n.kind = "BinOp" -> <<n.left, n.op, n.right>>
      [] n.kind = "UnaryOp" -> <<n.op, n.operand>>
      [] n.kind = "BoolOp" -> <<n.op>> \o n.values
      [] n.kind = "Compare" -> <<n.left>> \o n.ops \o n.comparators
      [] n.kind = "Call" -> <<n.func>> \o n.args \o n.keywords
      [] n.kind = "keyword" -> <<n.value>>
      [] n.kind = "Attribute" -> <<n.value, n.ctx>>
      [] n.kind = "Subscript" -> <<n.value, n.slice, n.ctx>>
      [] n.kind = "Slice" -> <<n.lower, n.upper>>
      [] n.kind = "Name" -> <<n.ctx>>
      [] n.kind \in {"List", "Tuple"} -> n.elts \o <<n.ctx>>
      [] n.kind = "Dict" -> n.keys \o n.values
      [] n.kind = "IfExp" -> <<n.test, n.body, n.orelse>>
      [] n.kind = "Lambda" -> <<n.args, n.body>>
      [] OTHER -> <<>>

(***************************************************************************)
(* safe_eval.py: the whitelist tables and the validator.                   *)
(***************************************************************************)
\* Variant: conditional expressions are whitelisted too.
ALLOWED_NODES_withIfExp ==
    {"Expression", "Constant", "Name", "BinOp", "UnaryOp", "BoolOp", "Compare",
     "Add", "Sub", "Mult", "Div", "FloorDiv", "Mod", "Pow",
     "UAdd", "USub", "And", "Or", "Not",
     "Eq", "NotEq", "Gt", "GtE", "Lt", "LtE",
     "Call", "Load", "Subscript", "Attribute", "IfExp"}

ALLOWED_NODES ==
    {"Expression", "Constant", "Name", "BinOp", "UnaryOp", "BoolOp", "Compare",
     "Add", "Sub", "Mult", "Div", "FloorDiv", "Mod", "Pow",
     "UAdd", "USub", "And", "Or", "Not",
     "Eq", "NotEq", "Gt", "GtE", "Lt", "LtE",
     "Call", "Load", "Subscript", "Attribute"}

ALLOWED_UNARY_OPS == {"UAdd", "USub", "Not"}

ALLOWED_FUNCTIONS == {"abs", "ceil", "floor", "round", "sqrt", "min", "max"}

Ok == [ok |-> TRUE]
\* A raised exception of the load-time code: class, message, offending item.
Raise(cls, msg, what) == [err |-> cls, msg |-> msg, what |-> what]
SafeEvalError(msg, what) == Raise("SafeEvalError", msg, what)

\* str.startswith("_")
StartsWithUnderscore(s) == Len(s) > 0 /\ SubSeq(s, 1, 1) = "_"

RECURSIVE Visit(_)

\* The first exception raised while visiting the nodes of a list in turn.
FirstRaised(rs) ==
    IF \A i \in 1..Len(rs) : rs[i] = Ok THEN Ok
    ELSE rs[CHOOSE i \in 1..Len(rs) : rs[i] # Ok /\ \A j \in 1..(i - 1) : rs[j] = Ok]

\* NodeVisitor.generic_visit of the base class: visit every child in turn;
\* the first exception raised ends the walk.
VisitAll(seq) == FirstRaised([i \in 1..Len(seq) |-> Visit(seq[i])])

\* Variant: the whitelist test is applied to the node but the walk does not
\* descend into its children.
generic_visit_shallow(node) ==
    IF node.kind \notin ALLOWED_NODES
    THEN SafeEvalError("Disallowed expression node", node.kind)
    ELSE Ok

generic_visit(node) ==
    IF node.kind \notin ALLOWED_NODES
    THEN SafeEvalError("Disallowed expression node", node.kind)
    ELSE VisitAll(Children(node))

visit_UnaryOp(node) ==
    IF node.op.kind \notin ALLOWED_UNARY_OPS
    THEN SafeEvalError("Disallowed unary operator", node.op.kind)
    ELSE generic_visit(node)

visit_Attribute(node) ==
    IF StartsWithUnderscore(node.attr)
    THEN SafeEvalError("Access to private attributes is forbidden", node.attr)
    ELSE generic_visit(node)

\* NodeVisitor.visit: dispatch on the node's class name.
Visit(node) ==
    CASE node.kind = "UnaryOp" -> visit_UnaryOp(node)
      [] node.kind = "Attribute" -> visit_Attribute(node)
      [] OTHER -> generic_visit(node)

\* _compile: parse, validate, compile.  The code object is the tree itself.
Code(tree) == [code |-> tree]
IsCode(c) == "code" \in DOMAIN c
IsError(c) == "err" \in DOMAIN c

\* The validator's verdict `v` decides between the exception and the code.
CompileValidated(expr, v) == IF v # Ok THEN v ELSE Code(expr)

PyCompile(expr) ==
    IF expr = Unparsable THEN SafeEvalError("Invalid expression", "SyntaxError")
    ELSE CompileValidated(expr, Visit(expr))

(***************************************************************************)
(* Python values, as far as formulas can produce them.                     *)
(***************************************************************************)
NumV(n) == [t |-> "num", n |-> n]
BoolV(b) == [t |-> "bool", b |-> b]
NoneV == [t |-> "none"]
StrV(s) == [t |-> "str", s |-> s]
DictV(d) == [t |-> "dict", d |-> d]
NsV(m) == [t |-> "ns", m |-> m]
FnV(f) == [t |-> "fn", f |-> f]
\* A bound method of a built-in value, e.g. 's'.upper
MethV(name, self) == [t |-> "meth", name |-> name, self |-> self]
\* A list object: its identity and its items.  Every name bound to the object
\* holds the same ref.
ListV(ref, items) == [t |-> "list", ref |-> ref, items |-> items]
\* A raised exception, by class name.
ErrV(e) == [t |-> "err", e |-> e]
\* A value outside the integers of the model (an inexact quotient or root).
OutOfModel == ErrV("OutOfModel")

IsErr(v) == v.t = "err"
IsNumeric(v) == v.t \in {"num", "bool"}
NumOf(v) == IF v.t = "num" THEN v.n ELSE IF v.b THEN 1 ELSE 0
Abs(n) == IF n < 0 THEN -n ELSE n

\* bool(v): Python truthiness, as `if not amt` and `if cond` test it.
Truthy(v) ==
    CASE v.t = "num" -> v.n # 0
      [] v.t = "bool" -> v.b
      [] v.t = "none" -> FALSE
      [] v.t = "str" -> v.s # ""
      [] v.t = "dict" -> DOMAIN v.d # {}
      [] v.t = "list" -> v.items # <<>>
      [] OTHER -> TRUE

\* {**a, **b}: the right operand wins.
Merge(a, b) ==
    [k \in DOMAIN a \cup DOMAIN b |-> IF k \in DOMAIN b THEN b[k] ELSE a[k]]

RECURSIVE to_namespace(_)
to_namespace(value) ==
    IF value.t = "dict"
    THEN NsV([k \in DOMAIN value.d |-> to_namespace(value.d[k])])
    ELSE value

PyFloorDiv(a, b) == IF b > 0 THEN a \div b ELSE (-a) \div (-b)
PyMod(a, b) == a - b * PyFloorDiv(a, b)

RECURSIVE RepeatStr(_, _)
RepeatStr(s, n) == IF n <= 0 THEN "" ELSE s \o RepeatStr(s, n - 1)

\* The binary operators on two evaluated operands.
PyBinOp(op, l, r) ==
    IF IsNumeric(l) /\ IsNumeric(r)
    THEN LET a == NumOf(l)
             b == NumOf(r)
         IN CASE op = "Add" -> NumV(a + b)
              [] op = "Sub" -> NumV(a - b)
              [] op = "Mult" -> NumV(a * b)
              [] op = "Div" ->
                    IF b = 0 THEN ErrV("ZeroDivisionError")
                    ELSE IF PyMod(a, b) = 0 THEN NumV(PyFloorDiv(a, b))
                    ELSE OutOfModel
              [] op = "FloorDiv" ->
                    IF b = 0 THEN ErrV("ZeroDivisionError") ELSE NumV(PyFloorDiv(a, b))
              [] op = "Mod" ->
                    IF b = 0 THEN ErrV("ZeroDivisionError") ELSE NumV(PyMod(a, b))
              [] op = "Pow" ->
                    IF b >= 0 THEN NumV(a ^ b)
                    ELSE IF a = 0 THEN ErrV("ZeroDivisionError") ELSE OutOfModel
              [] OTHER -> ErrV("TypeError")
    ELSE IF op = "Add" /\ l.t = "str" /\ r.t = "str" THEN StrV(l.s \o r.s)
    ELSE IF op = "Mult" /\ l.t = "str" /\ IsNumeric(r) THEN StrV(RepeatStr(l.s, NumOf(r)))
    ELSE IF op = "Mult" /\ IsNumeric(l) /\ r.t = "str" THEN StrV(RepeatStr(r.s, NumOf(l)))
    ELSE IF op = "Mod" /\ l.t = "str" THEN OutOfModel
    ELSE ErrV("TypeError")

PyUnaryOp(op, v) ==
    CASE op = "Not" -> BoolV(~Truthy(v))
      [] op = "USub" -> IF IsNumeric(v) THEN NumV(-NumOf(v)) ELSE ErrV("TypeError")
      [] op = "UAdd" -> IF IsNumeric(v) THEN NumV(NumOf(v)) ELSE ErrV("TypeError")
      [] OTHER -> ErrV("TypeError")

PyEq(l, r) ==
    IF IsNumeric(l) /\ IsNumeric(r) THEN NumOf(l) = NumOf(r)
    ELSE IF l.t = r.t THEN l = r
    ELSE FALSE

PyCompare(op, l, r) ==
    CASE op = "Eq" -> BoolV(PyEq(l, r))
      [] op = "NotEq" -> BoolV(~PyEq(l, r))
      [] OTHER ->
            IF IsNumeric(l) /\ IsNumeric(r)
            THEN LET a == NumOf(l)
                     b == NumOf(r)
                 IN CASE op = "Lt" -> BoolV(a < b)
                      [] op = "LtE" -> BoolV(a <= b)
                      [] op = "Gt" -> BoolV(a > b)
                      [] op = "GtE" -> BoolV(a >= b)
                      [] OTHER -> ErrV("TypeError")
            ELSE IF l.t = "str" /\ r.t = "str" THEN OutOfModel
            ELSE ErrV("TypeError")

RECURSIVE ISqrt(_, _)
ISqrt(n, k) == IF k * k >= n THEN k ELSE ISqrt(n, k + 1)

RECURSIVE MinOf(_)
MinOf(ns) == IF Len(ns) = 1 THEN ns[1]
             ELSE LET m == MinOf(Tail(ns)) IN IF m < ns[1] THEN m ELSE ns[1]
RECURSIVE MaxOf(_)
MaxOf(ns) == IF Len(ns) = 1 THEN ns[1]
             ELSE LET m == MaxOf(Tail(ns)) IN IF m > ns[1] THEN m ELSE ns[1]

\* _ALLOWED_FUNCTIONS applied to evaluated arguments (integers only, so that
\* ceil, floor and round return their argument).
ApplyFn(f, args) ==
    LET n == Len(args)
        allNum == \A i \in 1..n : IsNumeric(args[i])
        nums == [i \in 1..n |-> NumOf(args[i])]
    IN CASE f \in {"abs", "ceil", "floor", "sqrt"} ->
              IF n # 1 \/ ~allNum THEN ErrV("TypeError")
              ELSE IF f = "abs" THEN NumV(Abs(nums[1]))
              ELSE IF f = "sqrt" THEN
                   IF nums[1] < 0 THEN ErrV("ValueError")
                   ELSE LET k == ISqrt(nums[1], 0)
                        IN IF k * k = nums[1] THEN NumV(k) ELSE OutOfModel
              ELSE NumV(nums[1])
         [] f = "round" ->
              IF n = 0 \/ n > 2 \/ ~allNum THEN ErrV("TypeError")
              ELSE IF n = 1 THEN NumV(nums[1]) ELSE OutOfModel
         [] f \in {"min", "max"} ->
              IF n < 2 \/ ~allNum THEN ErrV("TypeError")
              ELSE IF f = "min" THEN NumV(MinOf(nums)) ELSE NumV(MaxOf(nums))
         [] OTHER -> ErrV("TypeError")

\* str.upper, letter by letter, on the letters the model's strings are made of.
UpperChar(c) == IF c = "s" THEN "S" ELSE IF c = "k" THEN "K" ELSE c
RECURSIVE Upper(_)
Upper(s) ==
    IF Len(s) = 0 THEN ""
    ELSE UpperChar(SubSeq(s, 1, 1)) \o Upper(SubSeq(s, 2, Len(s)))

\* A bound method applied to evaluated arguments.
ApplyMethod(m, args) ==
    IF m.name = "upper" /\ args = <<>> THEN StrV(Upper(m.self.s))
    ELSE IF m.name = "pop" /\ args = <<>>
         THEN IF m.self.items = <<>> THEN ErrV("IndexError")
              ELSE m.self.items[Len(m.self.items)]
         ELSE ErrV("TypeError")

PyCall(f, args) ==
    IF f.t = "fn" THEN ApplyFn(f.f, args)
    ELSE IF f.t = "meth" THEN ApplyMethod(f, args)
    ELSE ErrV("TypeError")

\* getattr on a value.  Namespaces carry their keys; of the attribute names
\* the formulas of this model use, a str has `upper`, a list has `pop`, and
\* no int, bool, dict, None or builtin function has any.
PyGetAttr(v, attr) ==
    IF v.t = "ns"
    THEN IF attr \in DOMAIN v.m THEN v.m[attr] ELSE ErrV("AttributeError")
    ELSE IF v.t = "str" /\ attr = "upper" THEN MethV("upper", v)
    ELSE IF v.t = "list" /\ attr = "pop" THEN MethV("pop", v)
    ELSE ErrV("AttributeError")

\* value[key] with a string key (the only subscripts the formulas here use).
PyGetItem(v, k) ==
    IF v.t = "dict"
    THEN IF k.t = "str"
         THEN IF k.s \in DOMAIN v.d THEN v.d[k.s] ELSE ErrV("KeyError")
         ELSE ErrV("KeyError")
    ELSE ErrV("TypeError")

\* The sub-expressions of a node that evaluation reaches, in evaluation order.
Operands(n) ==
    CASE n.kind = "Expression" -> <<n.body>>
      [] n.kind = "BinOp" -> <<n.left, n.right>>
      [] n.kind = "UnaryOp" -> <<n.operand>>
      [] n.kind = "BoolOp" -> n.values
      [] n.kind = "Compare" -> <<n.left>> \o n.comparators
      [] n.kind = "Call" -> <<n.func>> \o n.args
      [] n.kind = "Attribute" -> <<n.value>>
      [] n.kind = "Subscript" -> <<n.value, n.slice>>
      [] OTHER -> <<>>

\* Variant: a name bound nowhere evaluates to None.
Lookup_default(id, env) == IF id \in DOMAIN env THEN env[id] ELSE NoneV

\* A name is looked up in the environment eval() was given; the globals hold
\* no builtins.
Lookup(id, env) == IF id \in DOMAIN env THEN env[id] ELSE ErrV("NameError")

\* The first operand that raised, or 0.
FirstErr(vs) ==
    IF \A i \in 1..Len(vs) : ~IsErr(vs[i]) THEN 0
    ELSE CHOOSE i \in 1..Len(vs) : IsErr(vs[i]) /\ \A j \in 1..(i - 1) : ~IsErr(vs[j])

\* A node's value from the values of its operands.  Evaluation has no side
\* effect, so an operand's value is used only where Python evaluates it:
\* left to right up to the first exception, and `and`/`or` short-circuit.
Combine(n, vs, env) ==
    CASE n.kind = "Constant" ->
            IF "num" \in DOMAIN n THEN NumV(n.num) ELSE StrV(n.str)
      [] n.kind = "Name" -> Lookup(n.id, env)
      [] n.kind = "BoolOp" ->
            IF IsErr(vs[1]) THEN vs[1]
            ELSE IF n.op.kind = "And"
                 THEN (IF Truthy(vs[1]) THEN vs[2] ELSE vs[1])
                 ELSE (IF Truthy(vs[1]) THEN vs[1] ELSE vs[2])
      [] OTHER ->
            IF FirstErr(vs) # 0 THEN vs[FirstErr(vs)]
            ELSE CASE n.kind = "Expression" -> vs[1]
                   [] n.kind = "BinOp" -> PyBinOp(n.op.kind, vs[1], vs[2])
                   [] n.kind = "UnaryOp" -> PyUnaryOp(n.op.kind, vs[1])
                   [] n.kind = "Compare" -> PyCompare(n.ops[1].kind, vs[1], vs[2])
                   [] n.kind = "Call" -> PyCall(vs[1], Tail(vs))
                   [] n.kind = "Attribute" -> PyGetAttr(vs[1], n.attr)
                   [] n.kind = "Subscript" -> PyGetItem(vs[1], vs[2])
                   [] OTHER -> ErrV("SystemError")

\* eval(code, {"__builtins__": {}}, env) on a validated tree.
RECURSIVE Eval(_, _)
Eval(n, env) ==
    Combine(n, [i \in 1..Len(Operands(n)) |-> Eval(Operands(n)[i], env)], env)

(***************************************************************************)
(* safe_eval.py: the public helpers.                                       *)
(***************************************************************************)
ALLOWED_CONSTANTS == [true |-> BoolV(TRUE), false |-> BoolV(FALSE), null |-> NoneV]
FunctionsEnv == [f \in ALLOWED_FUNCTIONS |-> FnV(f)]

\* The closures compile_safe_expr returns.
LitClosure(v) == [fn |-> "lit", lit |-> v]
ExprClosure(code, constants, doc) ==
    [fn |-> "expr", code |-> code, constants |-> constants, doc |-> doc]
IsClosure(c) == "fn" \in DOMAIN c

\* compile_safe_expr after _compile returned `c` (or raised it).
ClosureOf(c, constants, expr) ==
    IF IsError(c) THEN c ELSE ExprClosure(c.code, constants, expr)

compile_safe_expr(expr, constants) ==
    IF ~IsStr(expr) THEN LitClosure(expr.lit)
    ELSE ClosureOf(PyCompile(expr), constants, expr)

\* Variant: the constants table is merged after the prior results.
FnEnv_constantsLast(constants, results, c) ==
    Merge(Merge(Merge(ALLOWED_CONSTANTS, results), constants),
          [gross |-> c.gross, flags |-> to_namespace(c.flags)])

\* The environment _fn builds, lowest precedence first.
FnEnv(constants, results, c) ==
    Merge(Merge(Merge(ALLOWED_CONSTANTS, constants), results),
          [gross |-> c.gross, flags |-> to_namespace(c.flags)])

\* The locals _fn hands to eval().
EvalEnv(fn, c, results) == Merge(FunctionsEnv, FnEnv(fn.constants, results, c))

\* _fn(ctx, results), and the literal closure.
CallFn(fn, c, results) ==
    IF fn.fn = "lit" THEN fn.lit
    ELSE Eval(fn.code, EvalEnv(fn, c, results))

\* for k, v in list(env.items()): env[k] = _to_namespace(v)
NamespaceAll(env) == [k \in DOMAIN env |-> to_namespace(env[k])]

\* The locals safe_eval hands to eval().
SafeEvalEnv(local_env) ==
    Merge(FunctionsEnv, NamespaceAll(Merge(ALLOWED_CONSTANTS, local_env)))

\* safe_eval after _compile returned `c` (or raised it).
SafeEvalCode(c, local_env) ==
    IF IsError(c) THEN c ELSE Eval(c.code, SafeEvalEnv(local_env))

\* safe_eval(expr, local_env): the value returned or the exception raised.
safe_eval(expr, local_env) ==
    IF ~IsStr(expr) THEN expr.lit ELSE SafeEvalCode(PyCompile(expr), local_env)

\* The operands of a node that evaluation reaches, given their values: those
\* before the first one that raised, and the second operand of and/or only
\* when the first did not decide.
Reached(n, vs) ==
    IF n.kind = "BoolOp"
    THEN {1} \cup (IF ~IsErr(vs[1]) /\ (Truthy(vs[1]) <=> n.op.kind = "And")
                   THEN {2} ELSE {})
    ELSE {i \in 1..Len(vs) : \A j \in 1..(i - 1) : ~IsErr(vs[j])}

\* What evaluating the node itself does: a name lookup, or a call once the
\* callee and the arguments are evaluated.
OwnEvents(n, vs) ==
    IF n.kind = "Name" THEN {[look |-> n.id]}
    ELSE IF n.kind = "Call" /\ FirstErr(vs) = 0 /\ vs[1].t \in {"fn", "meth"}
         THEN {[call |-> vs[1]]}
         ELSE {}

\* The name lookups and calls performed while eval() evaluates a tree.
RECURSIVE Trace(_, _)
TraceWith(n, vs, env) ==
    OwnEvents(n, vs) \cup UNION {Trace(Operands(n)[i], env) : i \in Reached(n, vs)}
Trace(n, env) ==
    TraceWith(n, [i \in 1..Len(Operands(n)) |-> Eval(Operands(n)[i], env)], env)

Calls(n, env) == {e \in Trace(n, env) : "call" \in DOMAIN e}
Lookups(n, env) == {e.look : e \in {x \in Trace(n, env) : "look" \in DOMAIN x}}

\* The list objects a tree's evaluation pops an item from.  (The formulas of
\* the model pop a list at most once in an evaluation.)
Pops(n, env) ==
    {e.call.self.ref :
        e \in {x \in Calls(n, env) : /\ x.call.t = "meth"
                                     /\ x.call.name = "pop"
                                     /\ x.call.self.items # <<>>}}

\* A value once the list objects `refs` have lost their last item.
Popped(v, refs) ==
    IF v.t = "list" /\ v.ref \in refs
    THEN ListV(v.ref, SubSeq(v.items, 1, Len(v.items) - 1))
    ELSE v

\* The list objects a call of a compile_safe_expr closure pops.
FnPops(fn, c, results) ==
    IF fn.fn = "expr" THEN Pops(fn.code, EvalEnv(fn, c, results)) ELSE {}

\* A compile_safe_expr closure after such pops: `constants` is a shallow copy
\* of the caller's mapping, so that it holds the caller's list objects.
FnAfter(fn, refs) ==
    IF fn.fn = "expr"
    THEN [fn EXCEPT !.constants = [k \in DOMAIN @ |-> Popped(@[k], refs)]]
    ELSE fn

(***************************************************************************)
(* rules.py: compiled rules, the registry and the two built-in compilers.  *)
(***************************************************************************)
\* spec.get(key, default) on a raw declaration.
Get(spec, key, default) == IF key \in DOMAIN spec THEN spec[key] ELSE default

DIRECTIONS == {"employee", "employer", "neutral"}

\* cond_fn = (lambda *_: True)
AlwaysTrue == [fn |-> "always"]
\* PercentageRule's amount_fn, closing over rate_fn, base_fn and sign.
PctClosure(rf, bf, s) == [fn |-> "pct", rf |-> rf, bf |-> bf, s |-> s]

CompiledRule(rid, label, direction, amount_fn, condition_fn) ==
    [id |-> rid, label |-> label, direction |-> direction,
     amount_fn |-> amount_fn, condition_fn |-> condition_fn]

\* s * rf(ctx, results) * bf(ctx, results), left to right: the product
\* s * rate is formed before base_fn is called.
PctTimesBase(sr, b) == IF IsErr(b) THEN b ELSE PyBinOp("Mult", sr, b)
PctSigned(sr, fn, c, results) ==
    IF IsErr(sr) THEN sr ELSE PctTimesBase(sr, CallFn(fn.bf, c, results))
PctRate(r, fn, c, results) ==
    IF IsErr(r) THEN r ELSE PctSigned(PyBinOp("Mult", NumV(fn.s), r), fn, c, results)

\* Calling any of a rule's two functions.
Invoke(fn, c, results) ==
    CASE fn.fn = "always" -> BoolV(TRUE)
      [] fn.fn = "pct" -> PctRate(CallFn(fn.rf, c, results), fn, c, results)
      [] OTHER -> CallFn(fn, c, results)

\* Variant: the amount formula is called whatever the condition returned.
RuleAmount_ignoreCond(rule, c, results) ==
    Invoke(rule.amount_fn, c, results)

\* Variant: the amount formula is evaluated first, the condition then chooses
\* between its value and 0.0.
AmountThen(amt, cond) ==
    IF IsErr(amt) THEN amt ELSE IF Truthy(cond) THEN amt ELSE NumV(0)
AmountIf_eager(cond, rule, c, results) ==
    IF IsErr(cond) THEN cond ELSE AmountThen(Invoke(rule.amount_fn, c, results), cond)

\* The calls CompiledRule.amount makes, in order, once the condition returned
\* `cond` (or raised it).
AmountCalls(cond) ==
    IF ~IsErr(cond) /\ Truthy(cond) THEN <<"condition_fn", "amount_fn">>
    ELSE <<"condition_fn">>

\* `amount_fn(...) if <cond> else 0.0`, once the condition returned `cond`.
AmountIf(cond, rule, c, results) ==
    IF IsErr(cond) THEN cond
    ELSE IF Truthy(cond) THEN Invoke(rule.amount_fn, c, results)
    ELSE NumV(0)

\* CompiledRule.amount
RuleAmount(rule, c, results) ==
    AmountIf(Invoke(rule.condition_fn, c, results), rule, c, results)

\* The list objects a call of any of a rule's two functions pops.
InvokePops(fn, c, results) ==
    IF fn.fn = "pct"
    THEN FnPops(fn.rf, c, results)
            \cup (IF IsErr(CallFn(fn.rf, c, results)) THEN {}
                  ELSE FnPops(fn.bf, c, results))
    ELSE FnPops(fn, c, results)

\* The list objects CompiledRule.amount pops.
AmountPops(cond, rule, c, results) ==
    IF ~IsErr(cond) /\ Truthy(cond) THEN InvokePops(rule.amount_fn, c, results) ELSE {}
RulePops(rule, c, results) ==
    InvokePops(rule.condition_fn, c, results)
        \cup AmountPops(Invoke(rule.condition_fn, c, results), rule, c, results)

\* A rule's function, and a rule list, after such pops: the closures of every
\* rule were compiled over the one `variables` mapping of the document.
InvokeAfter(fn, refs) ==
    IF fn.fn = "pct"
    THEN [fn EXCEPT !.rf = FnAfter(@, refs), !.bf = FnAfter(@, refs)]
    ELSE FnAfter(fn, refs)
RulesAfter(rs, refs) ==
    [i \in DOMAIN rs |->
        [rs[i] EXCEPT !.amount_fn = InvokeAfter(@, refs),
                      !.condition_fn = InvokeAfter(@, refs)]]

\* The condition closure both compilers build.
CompileCondition(spec, variables) ==
    IF "condition" \notin DOMAIN spec THEN AlwaysTrue
    ELSE compile_safe_expr(spec["condition"], variables)

\* Variant: the direction is not tested.
CheckedRule_anyDirection(rid, label, direction, amount_fn, cond_fn) ==
    CompiledRule(rid, label, direction, amount_fn, cond_fn)

\* The last steps of both compilers: the direction test and the rule.
CheckedRule(rid, label, direction, amount_fn, cond_fn) ==
    IF direction \notin DIRECTIONS THEN Raise("ValueError", "invalid direction", rid)
    ELSE CompiledRule(rid, label, direction, amount_fn, cond_fn)

\* Variant: the sign is +1 for employer only.
PctWithCond_neutralMinus(spec, rate_fn, base_fn, cond_fn) ==
    IF IsError(cond_fn) THEN cond_fn
    ELSE CheckedRule(spec["id"], Get(spec, "label", spec["id"]),
                     Get(spec, "direction", "employee"),
                     PctClosure(rate_fn, base_fn,
                                IF Get(spec, "direction", "employee") = "employer"
                                THEN 1 ELSE -1),
                     cond_fn)

PctWithCond(spec, rate_fn, base_fn, cond_fn) ==
    IF IsError(cond_fn) THEN cond_fn
    ELSE CheckedRule(spec["id"], Get(spec, "label", spec["id"]),
                     Get(spec, "direction", "employee"),
                     PctClosure(rate_fn, base_fn,
                                IF Get(spec, "direction", "employee") = "employee"
                                THEN -1 ELSE 1),
                     cond_fn)
PctWithBase(spec, variables, rate_fn, base_fn) ==
    IF IsError(base_fn) THEN base_fn
    ELSE PctWithCond(spec, rate_fn, base_fn, CompileCondition(spec, variables))
PctWithRate(spec, variables, rate_fn) ==
    IF IsError(rate_fn) THEN rate_fn
    ELSE PctWithBase(spec, variables, rate_fn,
                     compile_safe_expr(Get(spec, "base", Expression(Name("gross"))),
                                       variables))

PercentageRule_compile(spec, variables) ==
    IF "id" \notin DOMAIN spec THEN Raise("KeyError", "missing key", "id")
    ELSE IF "rate" \notin DOMAIN spec THEN Raise("KeyError", "missing key", "rate")
    ELSE PctWithRate(spec, variables, compile_safe_expr(spec["rate"], variables))

\* Variant: the direction defaults to employee, as for a percentage rule.
CreditWithCond_defaultEmployee(spec, amt_fn, cond_fn) ==
    IF IsError(cond_fn) THEN cond_fn
    ELSE CheckedRule(spec["id"], Get(spec, "label", spec["id"]),
                     Get(spec, "direction", "employee"), amt_fn, cond_fn)

CreditWithCond(spec, amt_fn, cond_fn) ==
    IF IsError(cond_fn) THEN cond_fn
    ELSE CheckedRule(spec["id"], Get(spec, "label", spec["id"]),
                     Get(spec, "direction", "neutral"), amt_fn, cond_fn)
CreditWithAmount(spec, variables, amt_fn) ==
    IF IsError(amt_fn) THEN amt_fn
    ELSE CreditWithCond(spec, amt_fn, CompileCondition(spec, variables))

CreditRule_compile(spec, variables) ==
    IF "id" \notin DOMAIN spec THEN Raise("KeyError", "missing key", "id")
    ELSE IF "amount" \notin DOMAIN spec THEN Raise("KeyError", "missing key", "amount")
    ELSE CreditWithAmount(spec, variables, compile_safe_expr(spec["amount"], variables))

\* _RULE_REGISTRY after the two register() calls: its keys, and the lookup.
RULE_REGISTRY == {"percentage", "credit"}

RegistryCompile(rtype, spec, variables) ==
    IF rtype = "percentage" THEN PercentageRule_compile(spec, variables)
    ELSE CreditRule_compile(spec, variables)

(***************************************************************************)
(* loader.py: one iteration of load_rules' loop.                           *)
(***************************************************************************)
Nothing == [none |-> TRUE]
Loaded(list) == [failed |-> FALSE, compiled |-> list, error |-> Nothing]
LoadFailed(e) == [failed |-> TRUE, compiled |-> <<>>, error |-> e]

\* compiled.append(<rule>), unless the compiler raised.
Appended(r, sofar) == IF IsError(r) THEN LoadFailed(r) ELSE Loaded(Append(sofar, r))
Prepended(r, sofar) == IF IsError(r) THEN LoadFailed(r) ELSE Loaded(<<r>> \o sofar)

\* Variant: a declaration of unregistered type is passed over.
LoadOne_skip(spec, variables, sofar) ==
    IF spec["type"] \notin RULE_REGISTRY THEN Loaded(sofar)
    ELSE Appended(RegistryCompile(spec["type"], spec, variables), sofar)

\* Variant: the compiled rule is put in front of the list.
LoadOne_prepend(spec, variables, sofar) ==
    IF spec["type"] \notin RULE_REGISTRY
    THEN LoadFailed(Raise("KeyError", "Unknown rule type", spec["type"]))
    ELSE Prepended(RegistryCompile(spec["type"], spec, variables), sofar)

\* The list `compiled` after the iteration on `spec`, or the exception raised.
LoadOne(spec, variables, sofar) ==
    IF spec["type"] \notin RULE_REGISTRY
    THEN LoadFailed(Raise("KeyError", "Unknown rule type", spec["type"]))
    ELSE Appended(RegistryCompile(spec["type"], spec, variables), sofar)

(***************************************************************************)
(* engine.py: PayrollEngine.run, one loop iteration at a time.             *)
(***************************************************************************)
Entry(rule, amt) ==
    [id |-> rule.id, label |-> rule.label, amount |-> amt, direction |-> rule.direction]

\* Variant: an id that is present keeps the entry it has.
Put_keepFirst(bd, e) ==
    IF \E i \in 1..Len(bd) : bd[i].id = e.id THEN bd ELSE Append(bd, e)

\* breakdown[rule.id] = {...}: a new key goes last, a present key keeps its place.
Put(bd, e) ==
    IF \E i \in 1..Len(bd) : bd[i].id = e.id
    THEN [i \in 1..Len(bd) |-> IF bd[i].id = e.id THEN e ELSE bd[i]]
    ELSE Append(bd, e)

Keys(bd) == {bd[i].id : i \in 1..Len(bd)}

\* The dict `breakdown` as formulas receive it (**results).
ResultsOf(bd) ==
    [k \in Keys(bd) |->
        LET e == bd[CHOOSE i \in 1..Len(bd) : bd[i].id = k]
        IN DictV([label |-> StrV(e.label), amount |-> e.amount,
                  direction |-> StrV(e.direction)])]

\* Variant: only None is passed over.
Skips_none(amt) == amt.t = "none"

\* `if not amt: continue`
Skips(amt) == ~Truthy(amt)

\* Variant: every non-employee direction is charged to the employer.
Accumulate_neutralEmployer(direction, amt, ee, er) ==
    IF direction # "employee"
    THEN [employee_total |-> ee, employer_total |-> er + amt]
    ELSE [employee_total |-> ee + amt, employer_total |-> er]

\* Variant: the two branches are exchanged.
Accumulate_swapped(direction, amt, ee, er) ==
    IF direction = "employer"
    THEN [employee_total |-> ee + amt, employer_total |-> er]
    ELSE [employee_total |-> ee, employer_total |-> er + amt]

\* Variant: an amount is added only on the first of the two branches.
Accumulate_employerOnly(direction, amt, ee, er) ==
    IF direction = "employer"
    THEN [employee_total |-> ee, employer_total |-> er + amt]
    ELSE [employee_total |-> ee, employer_total |-> er]

\* The two running totals after a fired rule.
Accumulate(direction, amt, ee, er) ==
    IF direction = "employer"
    THEN [employee_total |-> ee, employer_total |-> er + amt]
    ELSE [employee_total |-> ee + amt, employer_total |-> er]

Frame(state, bd, ee, er, e) ==
    [state |-> state, breakdown |-> bd, employee_total |-> ee, employer_total |-> er,
     error |-> e]
Frame0 == Frame("running", <<>>, 0, 0, Nothing)

\* The two `+=` of the loop body, on a numeric amount.
Totalled(t, bd) == Frame("running", bd, t.employee_total, t.employer_total, Nothing)

\* Variant: a rule whose formula raised is passed over.
StepWith_swallow(amt, rule, f) ==
    IF IsErr(amt) \/ Skips(amt) THEN f
    ELSE IF ~IsNumeric(amt)
         THEN Frame("error", Put(f.breakdown, Entry(rule, amt)),
                    f.employee_total, f.employer_total, ErrV("TypeError"))
         ELSE Totalled(Accumulate(rule.direction, NumOf(amt),
                                  f.employee_total, f.employer_total),
                       Put(f.breakdown, Entry(rule, amt)))

\* Variant: a rule that is passed over leaves an entry of amount 0.
StepWith_bindSkipped(amt, rule, f) ==
    IF IsErr(amt)
    THEN Frame("error", f.breakdown, f.employee_total, f.employer_total, amt)
    ELSE IF Skips(amt)
         THEN Frame("running", Put(f.breakdown, Entry(rule, NumV(0))),
                    f.employee_total, f.employer_total, Nothing)
    ELSE IF ~IsNumeric(amt)
         THEN Frame("error", Put(f.breakdown, Entry(rule, amt)),
                    f.employee_total, f.employer_total, ErrV("TypeError"))
         ELSE Totalled(Accumulate(rule.direction, NumOf(amt),
                                  f.employee_total, f.employer_total),
                       Put(f.breakdown, Entry(rule, amt)))

\* The loop body once rule.amount returned `amt` (or raised it).
StepWith(amt, rule, f) ==
    IF IsErr(amt)
    THEN Frame("error", f.breakdown, f.employee_total, f.employer_total, amt)
    ELSE IF Skips(amt) THEN f
    ELSE IF ~IsNumeric(amt)
         THEN Frame("error", Put(f.breakdown, Entry(rule, amt)),
                    f.employee_total, f.employer_total, ErrV("TypeError"))
         ELSE Totalled(Accumulate(rule.direction, NumOf(amt),
                                  f.employee_total, f.employer_total),
                       Put(f.breakdown, Entry(rule, amt)))

\* The body of `for rule in self.rules` on one rule.
StepRule(rule, c, f) ==
    StepWith(RuleAmount(rule, c, ResultsOf(f.breakdown)), rule, f)

\* Variant: the absolute value is left out of the sort key.
SortKey_noAbs(e) ==
    <<IF e.direction = "employee" THEN 0 ELSE 1, -NumOf(e.amount)>>

\* The key of sorted(): employee first, then descending absolute amount.
SortKey(e) ==
    <<IF e.direction = "employee" THEN 0 ELSE 1, -Abs(NumOf(e.amount))>>

KeyLess(a, b) == a[1] < b[1] \/ (a[1] = b[1] /\ a[2] < b[2])

\* sorted() is stable: an item goes after the items whose key is not greater.
RECURSIVE InsertSorted(_, _)
InsertSorted(s, x) ==
    IF s = <<>> THEN <<x>>
    ELSE IF KeyLess(SortKey(x), SortKey(Head(s))) THEN <<x>> \o s
    ELSE <<Head(s)>> \o InsertSorted(Tail(s), x)

RECURSIVE SortFrom(_, _)
SortFrom(items, acc) ==
    IF items = <<>> THEN acc ELSE SortFrom(Tail(items), InsertSorted(acc, Head(items)))

Sorted(items) == SortFrom(items, <<>>)

\* Variant: the totals are summed again from the entries the sort returned.
RECURSIVE SumEntries(_, _)
SumEntries(items, employer) ==
    IF items = <<>> THEN 0
    ELSE (IF (Head(items).direction = "employer") = employer
          THEN NumOf(Head(items).amount) ELSE 0) + SumEntries(Tail(items), employer)
Finish_resummed(c, f) ==
    [gross |-> NumOf(c.gross),
     net |-> NumOf(c.gross) + SumEntries(Sorted(f.breakdown), FALSE),
     super_gross |-> NumOf(c.gross) + SumEntries(Sorted(f.breakdown), TRUE),
     breakdown |-> Sorted(f.breakdown)]

\* The dict run returns.
Finish(c, f) ==
    [gross |-> NumOf(c.gross),
     net |-> NumOf(c.gross) + f.employee_total,
     super_gross |-> NumOf(c.gross) + f.employer_total,
     breakdown |-> Sorted(f.breakdown)]

\* The loop from a frame on: each iteration leaves to the later rules the
\* list objects as its formulas left them.
RECURSIVE FoldRules(_, _, _)
FoldRules(rs, c, f) ==
    IF rs = <<>> \/ f.state = "error" THEN f
    ELSE FoldRules(RulesAfter(Tail(rs), RulePops(Head(rs), c, ResultsOf(f.breakdown))),
                   c, StepRule(Head(rs), c, f))

Outcome(f, c) ==
    IF f.state = "error" THEN [raised |-> TRUE, result |-> Nothing, error |-> f.error]
    ELSE [raised |-> FALSE, result |-> Finish(c, f), error |-> Nothing]

\* run(gross, **flags) as a whole: what it returns or raises.
RunOutcome(rs, c) == Outcome(FoldRules(rs, c, Frame0), c)

(***************************************************************************)
(* engine.py: get_flags, which reads the formula strings kept as the       *)
(* closures' docstrings.                                                   *)
(***************************************************************************)
\* The operators as they are written in a formula string.
OpText(k) ==
    CASE k = "Add" -> " + " [] k = "Sub" -> " - " [] k = "Mult" -> " * "
      [] k = "Div" -> " / " [] k = "FloorDiv" -> " // " [] k = "Mod" -> " % "
      [] k = "Pow" -> " ** " [] k = "And" -> " and " [] k = "Or" -> " or "
      [] k = "Eq" -> " == " [] k = "NotEq" -> " != " [] k = "Lt" -> " < "
      [] k = "LtE" -> " <= " [] k = "Gt" -> " > " [] k = "GtE" -> " >= "
      [] k = "Not" -> "not " [] k = "USub" -> "-" [] k = "UAdd" -> "+"
      [] OTHER -> " ? "

\* An operand is written in parentheses when it is itself an operation.
Paren(n, text) ==
    IF n.kind \in {"BinOp", "BoolOp", "Compare", "UnaryOp"} THEN "(" \o text \o ")" ELSE text

RECURSIVE JoinArgs(_, _)
JoinArgs(parts, k) ==
    IF k > Len(parts) THEN ""
    ELSE parts[k] \o (IF k < Len(parts) THEN ", " ELSE "") \o JoinArgs(parts, k + 1)

\* The string of a node from the strings of its operands.
SourceOf(n, parts) ==
    CASE n.kind = "Expression" -> parts[1]
      [] n.kind = "Constant" ->
            IF "num" \in DOMAIN n THEN ToString(n.num) ELSE "'" \o n.str \o "'"
      [] n.kind = "Name" -> n.id
      [] n.kind = "Attribute" -> Paren(n.value, parts[1]) \o "." \o n.attr
      [] n.kind = "Subscript" -> Paren(n.value, parts[1]) \o "[" \o parts[2] \o "]"
      [] n.kind = "UnaryOp" -> OpText(n.op.kind) \o Paren(n.operand, parts[1])
      [] n.kind = "BinOp" ->
            Paren(n.left, parts[1]) \o OpText(n.op.kind) \o Paren(n.right, parts[2])
      [] n.kind = "BoolOp" ->
            Paren(n.values[1], parts[1]) \o OpText(n.op.kind)
                \o Paren(n.values[2], parts[2])
      [] n.kind = "Compare" ->
            Paren(n.left, parts[1]) \o OpText(n.ops[1].kind)
                \o Paren(n.comparators[1], parts[2])
      [] n.kind = "Call" -> parts[1] \o "(" \o JoinArgs(Tail(parts), 1) \o ")"
      [] OTHER -> "?"

\* The formula string of a validated tree: the text compile_safe_expr was
\* given and keeps as _fn.__doc__.
RECURSIVE Source(_)
Source(n) == SourceOf(n, [i \in 1..Len(Operands(n)) |-> Source(Operands(n)[i])])

\* fn.__doc__: the formula string for _fn, None for the two lambdas and for
\* PercentageRule's amount_fn, which have no docstring.
DocOf(fn) == IF fn.fn = "expr" THEN StrV(Source(fn.doc)) ELSE NoneV

\* char.isalnum() or char == "_", on the characters of the model's formulas.
NameChars ==
    {"a", "b", "c", "d", "e", "f", "g", "h", "i", "j", "k", "l", "m", "n", "o", "p",
     "q", "r", "s", "t", "u", "v", "w", "x", "y", "z", "A", "B", "C", "D", "E", "F",
     "G", "H", "I", "J", "K", "L", "M", "N", "O", "P", "Q", "R", "S", "T", "U", "V",
     "W", "X", "Y", "Z", "0", "1", "2", "3", "4", "5", "6", "7", "8", "9", "_"}

\* Where "flags." occurs in the text: the separators of docstring.split.
Separators(text) == {i \in 1..(Len(text) - 5) : SubSeq(text, i, i + 5) = "flags."}

\* The part that follows the separator at i, up to the next separator.
PartAfter(text, i) ==
    IF \E j \in Separators(text) : j > i
    THEN SubSeq(text, i + 6,
                (CHOOSE j \in Separators(text) :
                    j > i /\ \A k \in Separators(text) : k > i => j <= k) - 1)
    ELSE SubSeq(text, i + 6, Len(text))

\* The characters of the part before the first one that is not a name character.
RECURSIVE NamePrefix(_, _)
NamePrefix(part, k) ==
    IF k > Len(part) \/ SubSeq(part, k, k) \notin NameChars THEN ""
    ELSE SubSeq(part, k, k) \o NamePrefix(part, k + 1)

extract_flags_from_docstring(docstring) ==
    {NamePrefix(PartAfter(docstring, i), 1) : i \in Separators(docstring)} \ {""}

\* The docstrings get_flags reads of a rule, when they are not empty.
DocFlags(doc) ==
    IF doc.t = "str" /\ doc.s # "" THEN extract_flags_from_docstring(doc.s) ELSE {}

RuleFlags(rule) == DocFlags(DocOf(rule.condition_fn)) \cup DocFlags(DocOf(rule.amount_fn))

\* The order of str comparison on the characters of flag names.
Alphabet == "0123456789ABCDEFGHIJKLMNOPQRSTUVWXYZ_abcdefghijklmnopqrstuvwxyz"
Rank(c) == CHOOSE i \in 1..Len(Alphabet) : SubSeq(Alphabet, i, i) = c

RECURSIVE StrLess(_, _, _)
StrLess(a, b, k) ==
    IF k > Len(b) THEN FALSE
    ELSE IF k > Len(a) THEN TRUE
    ELSE IF SubSeq(a, k, k) = SubSeq(b, k, k) THEN StrLess(a, b, k + 1)
    ELSE Rank(SubSeq(a, k, k)) < Rank(SubSeq(b, k, k))

\* sorted(list(flags))
Least(names) == CHOOSE x \in names : \A y \in names \ {x} : StrLess(x, y, 1)
RECURSIVE SortedNames(_)
LeastFirst(names, least) == <<least>> \o SortedNames(names \ {least})
SortedNames(names) == IF names = {} THEN <<>> ELSE LeastFirst(names, Least(names))

get_flags(rs) == SortedNames(UNION {RuleFlags(rs[i]) : i \in 1..Len(rs)})

\* load_rules as a whole: the compiled list, or the exception raised.
RECURSIVE LoadFrom(_, _, _)
LoadFrom(specs, variables, r) ==
    IF r.failed \/ Len(r.compiled) = Len(specs) THEN r
    ELSE LoadFrom(specs, variables, LoadOne(specs[Len(r.compiled) + 1], variables, r.compiled))
load_rules(doc) == LoadFrom(doc["rules"], Get(doc, "variables", <<>>), Loaded(<<>>))

(***************************************************************************)
(* The inputs of the model.                                                *)
(***************************************************************************)
Formula(e) == Expression(e)

\* The constants table of the documents ("variables").
Variables == [RATE |-> NumV(2), MIN_WAGE |-> NumV(1000)]

DeclTax ==
    [type |-> "percentage", id |-> "tax", label |-> "Income tax",
     direction |-> "employee", rate |-> Lit(NumV(15)),
     base |-> Formula(BinOp(Name("gross"), "FloorDiv", Num(100)))]
DeclCredit ==
    [type |-> "credit", id |-> "credit", direction |-> "employee",
     amount |-> Lit(NumV(100)),
     condition |-> Formula(Compare(Name("gross"), "Lt",
                                   BinOp(Name("MIN_WAGE"), "Mult", Num(2))))]
DeclSoc ==
    [type |-> "percentage", id |-> "soc", direction |-> "employer",
     rate |-> Formula(Name("RATE"))]
DeclBonus ==
    [type |-> "credit", id |-> "bonus", amount |-> Lit(NumV(50))]
DeclZero ==
    [type |-> "credit", id |-> "zero", direction |-> "employer",
     amount |-> Formula(BinOp(Name("gross"), "Sub", Num(1000)))]
DeclHalf ==
    [type |-> "credit", id |-> "half", direction |-> "employee",
     amount |-> Formula(BinOp(Name("credit"), "Mult", Num(2)))]
DeclTop ==
    [type |-> "credit", id |-> "top", direction |-> "employer",
     amount |-> Formula(UnaryOp("USub", Subscript(Name("tax"), Str("amount")))),
     condition |-> Formula(Attribute(Name("flags"), "under25"))]
DeclDup ==
    [type |-> "credit", id |-> "tax", direction |-> "employer",
     amount |-> Lit(NumV(70))]
DeclUnknown ==
    [type |-> "Percentage", id |-> "levy", rate |-> Lit(NumV(1))]
DeclSideways ==
    [type |-> "credit", id |-> "side", direction |-> "sideways",
     amount |-> Lit(NumV(1))]
DeclEvil ==
    [type |-> "credit", id |-> "evil", condition |-> Formula(Name("false")),
     amount |-> Formula(Attribute(Name("flags"), "__class__"))]

DeclMaybe ==
    [type |-> "credit", id |-> "maybe", direction |-> "employee",
     amount |-> Formula(Subscript(Name("zero"), Str("amount"))),
     condition |-> Formula(Attribute(Name("flags"), "under25"))]

Decls ==
    {DeclTax, DeclCredit, DeclSoc, DeclBonus, DeclZero, DeclHalf, DeclTop, DeclDup,
     DeclUnknown, DeclSideways, DeclEvil, DeclMaybe}

\* The rule lists of the documents: up to MaxRules declarations, in any order.
RuleLists(n) == [1..n -> Decls]

GrossValues == {1000, 3000}
FlagSets == {[under25 |-> BoolV(b)] : b \in BOOLEAN}

(***************************************************************************)
(* The loader and the engine as a state machine.                           *)
(***************************************************************************)
SbIdle ==
    /\ sbExpr = Nothing /\ sbEntry = "off" /\ sbClosure = Nothing
    /\ sbEvals = 0 /\ sbValue = Nothing /\ sbSeen = {}

\* No second run, and no function called on its own.
FnIdle == fnIn = Nothing /\ fnCall = "off" /\ fnOut = Nothing
OtherIdle == other = Nothing

\* No engine: nothing loaded, nothing run.
EngineOff ==
    /\ document = Nothing /\ loadPc = 0 /\ compiled = <<>> /\ loadState = "off"
    /\ loadError = Nothing /\ rules = <<>> /\ runState = "off" /\ ctx = Nothing
    /\ pos = 0 /\ breakdown = <<>> /\ employee_total = 0 /\ employer_total = 0
    /\ result = Nothing /\ runError = Nothing /\ log = <<>> /\ aborted = FALSE

Init ==
    /\ SbIdle
    /\ \E n \in 0..MaxRules : \E rs \in RuleLists(n) :
          document = [variables |-> Variables, rules |-> rs]
    /\ loadPc = 1
    /\ compiled = <<>>
    /\ loadState = "loading"
    /\ loadError = Nothing
    /\ rules = <<>>
    /\ runState = "noengine"
    /\ ctx = Nothing
    /\ pos = 0
    /\ breakdown = <<>>
    /\ employee_total = 0
    /\ employer_total = 0
    /\ result = Nothing
    /\ runError = Nothing
    /\ log = <<>>
    /\ aborted = FALSE
    /\ OtherIdle
    /\ FnIdle

LoadStepTo(r) ==
    IF r.failed
    THEN /\ loadState' = "failed"
         /\ loadError' = r.error
         /\ UNCHANGED <<loadPc, compiled>>
    ELSE /\ compiled' = r.compiled
         /\ loadPc' = loadPc + 1
         /\ UNCHANGED <<loadState, loadError>>

\* load_rules: one iteration of `for spec in rule_specs`.
LoadStep ==
    /\ loadState = "loading"
    /\ loadPc <= Len(document["rules"])
    /\ LoadStepTo(LoadOne(document["rules"][loadPc], Get(document, "variables", <<>>),
                          compiled))
    /\ UNCHANGED <<document>>
    /\ UNCHANGED runVars
    /\ UNCHANGED sbVars
    /\ UNCHANGED <<other, fnVars>>

\* load_rules returns; from_yaml builds the engine on the compiled list.
LoadReturn ==
    /\ loadState = "loading"
    /\ loadPc > Len(document["rules"])
    /\ loadState' = "loaded"
    /\ rules' = compiled
    /\ runState' = "idle"
    /\ UNCHANGED <<document, loadPc, compiled, loadError>>
    /\ UNCHANGED <<ctx, pos, breakdown, employee_total, employer_total, result,
                   runError, log, aborted>>
    /\ UNCHANGED sbVars
    /\ UNCHANGED <<other, fnVars>>

\* run(gross, **flags): the four assignments before the loop.
RunStart ==
    /\ runState \in {"idle", "done", "error"}
    /\ \E g \in GrossValues, fl \in FlagSets :
          ctx' = [gross |-> NumV(g), flags |-> DictV(fl)]
    /\ breakdown' = <<>>
    /\ employer_total' = 0
    /\ employee_total' = 0
    /\ pos' = 1
    /\ runState' = "running"
    /\ result' = Nothing
    /\ runError' = Nothing
    /\ log' = <<>>
    /\ aborted' = (aborted \/ runState = "error")
    /\ UNCHANGED rules
    /\ UNCHANGED loadVars
    /\ UNCHANGED sbVars
    /\ UNCHANGED <<other, fnVars>>

\* What the history records of an iteration on self.rules[pos]: the ids the
\* rule's formulas could name, what its condition and rule.amount returned,
\* and what the iteration did to the breakdown and to the two totals.
LogEvent(cond, amt, f) ==
    [pos |-> pos, id |-> rules[pos].id, direction |-> rules[pos].direction,
     seen |-> Keys(breakdown), cond |-> cond, amt |-> amt, calls |-> AmountCalls(cond),
     fired |-> ~IsErr(amt) /\ Truthy(amt),
     changed |-> f.breakdown # breakdown,
     dee |-> f.employee_total - employee_total,
     der |-> f.employer_total - employer_total]

RunStepTo(f) ==
    /\ breakdown' = f.breakdown
    /\ employee_total' = f.employee_total
    /\ employer_total' = f.employer_total
    /\ runState' = f.state
    /\ runError' = f.error
    /\ pos' = IF f.state = "error" THEN pos ELSE pos + 1

\* One iteration of `for rule in self.rules`.
RunStep ==
    /\ runState = "running"
    /\ pos <= Len(rules)
    /\ RunStepTo(StepRule(rules[pos], ctx,
                          Frame("running", breakdown, employee_total, employer_total,
                                Nothing)))
    /\ log' = Append(log, LogEvent(Invoke(rules[pos].condition_fn, ctx,
                                          ResultsOf(breakdown)),
                                   RuleAmount(rules[pos], ctx, ResultsOf(breakdown)),
                                   StepRule(rules[pos], ctx,
                                            Frame("running", breakdown, employee_total,
                                                  employer_total, Nothing))))
    /\ rules' = RulesAfter(rules, RulePops(rules[pos], ctx, ResultsOf(breakdown)))
    /\ UNCHANGED <<ctx, result, aborted>>
    /\ UNCHANGED loadVars
    /\ UNCHANGED sbVars
    /\ UNCHANGED <<other, fnVars>>

\* The loop is over: totals, sort, return.
RunFinish ==
    /\ runState = "running"
    /\ pos > Len(rules)
    /\ result' = Finish(ctx, Frame("running", breakdown, employee_total,
                                   employer_total, Nothing))
    /\ runState' = "done"
    /\ UNCHANGED <<rules, ctx, pos, breakdown, employee_total, employer_total,
                   runError, log, aborted>>
    /\ UNCHANGED loadVars
    /\ UNCHANGED sbVars
    /\ UNCHANGED <<other, fnVars>>

Next == LoadStep \/ LoadReturn \/ RunStart \/ RunStep \/ RunFinish

Spec == Init /\ [][Next]_vars

(***************************************************************************)
(* Properties of the loader and the engine.                                *)
(***************************************************************************)
\* The sum of the amounts of the fired rules of direction d among the first
\* k iterations of the current run.
RECURSIVE SumFired(_, _)
SumFired(d, k) ==
    IF k = 0 THEN 0
    ELSE SumFired(d, k - 1)
            + (IF log[k].fired /\ IsNumeric(log[k].amt) /\ log[k].direction = d
               THEN NumOf(log[k].amt) ELSE 0)

RemoveAt(s, i) == SubSeq(s, 1, i - 1) \o SubSeq(s, i + 1, Len(s))

\* What the current run returned or raised, in the shape of RunOutcome.
CurrentOutcome == [raised |-> runState = "error", result |-> result, error |-> runError]

TwoSided == \A i \in 1..Len(rules) : rules[i].direction \in {"employee", "employer"}

\* C1: when every rule of the list has direction employee or employer, run
\* returns gross unchanged, net = gross + the sum of the amounts of the fired
\* employee rules, and super_gross = gross + the sum of the amounts of the
\* fired employer rules; with an empty rule list net = super_gross = gross
\* and the breakdown is empty.
C1_Totals ==
    (runState = "done" /\ TwoSided) =>
        /\ Len(log) = Len(rules)
        /\ result.gross = NumOf(ctx.gross)
        /\ result.net = NumOf(ctx.gross) + SumFired("employee", Len(log))
        /\ result.super_gross = NumOf(ctx.gross) + SumFired("employer", Len(log))
        /\ rules = <<>> =>
              /\ result.net = result.gross
              /\ result.super_gross = result.gross
              /\ result.breakdown = <<>>

\* A run returned after an employee rule and an employer rule fired and a
\* third rule did not.
C1_Witness ==
    /\ runState = "done"
    /\ TwoSided
    /\ \E i, j, k \in 1..Len(log) :
          /\ log[i].fired /\ log[i].direction = "employee"
          /\ log[j].fired /\ log[j].direction = "employer"
          /\ ~log[k].fired
    /\ result.net # result.gross
    /\ result.super_gross # result.gross
    /\ result.net # result.super_gross

NeutralFired(i) ==
    log[i].direction = "neutral" /\ log[i].fired /\ IsNumeric(log[i].amt)

\* The returned totals against those of the run without the last rule.
NetMovedBy(a, without) ==
    /\ ~without.raised
    /\ result.net = without.result.net + a
    /\ result.super_gross = without.result.super_gross

SuperGrossMovedBy(a, without) ==
    /\ ~without.raised
    /\ result.super_gross = without.result.super_gross + a
    /\ result.net = without.result.net

CondFalse(i) == ~IsErr(log[i].cond) /\ ~Truthy(log[i].cond)

\* C3: a rule whose condition evaluates false leaves the breakdown and both
\* totals as they were, and what the run returns or raises is what the same
\* run returns or raises with that rule removed from the list.
C3_FalseConditionIsAbsent ==
    \A i \in 1..Len(log) :
        CondFalse(i) =>
            /\ ~log[i].changed
            /\ log[i].dee = 0
            /\ log[i].der = 0
            /\ runState \in {"done", "error"} =>
                  RunOutcome(RemoveAt(rules, i), ctx) = CurrentOutcome

\* A run returned a non-empty breakdown although the condition of one of the
\* first rules was false.
C3_Witness ==
    /\ runState = "done"
    /\ result.breakdown # <<>>
    /\ \E i \in 1..(Len(log) - 1) :
          /\ CondFalse(i)
          /\ rules[i].condition_fn # AlwaysTrue
          /\ log[i + 1].fired

NoZeroEntry(bd) ==
    \A i \in 1..Len(bd) : ~(IsNumeric(bd[i].amount) /\ NumOf(bd[i].amount) = 0)

ZeroAmount(i) == IsNumeric(log[i].amt) /\ NumOf(log[i].amt) = 0

\* C4: a rule whose amount is exactly zero creates no breakdown entry, also
\* when its condition is true; at every point of a run, and in the returned
\* result, no breakdown entry has amount zero.
C4_NoZeroEntries ==
    /\ NoZeroEntry(breakdown)
    /\ runState = "done" => NoZeroEntry(result.breakdown)
    /\ \A i \in 1..Len(log) : ZeroAmount(i) => ~log[i].changed /\ ~log[i].fired

\* A run returned a non-empty breakdown without the rule whose condition was
\* true and whose amount was zero.
C4_Witness ==
    /\ runState = "done"
    /\ result.breakdown # <<>>
    /\ \E i \in 1..Len(log) :
          /\ ~IsErr(log[i].cond) /\ Truthy(log[i].cond)
          /\ ZeroAmount(i)
          /\ log[i].id \notin Keys(result.breakdown)

IsEmployee(e) == e.direction = "employee"
AbsAmount(e) == Abs(NumOf(e.amount))

EmployeeFirst(b) ==
    \A i, j \in 1..Len(b) : (IsEmployee(b[j]) /\ ~IsEmployee(b[i])) => j < i

NonIncreasingInGroups(b) ==
    \A i \in 1..(Len(b) - 1) :
        (IsEmployee(b[i]) = IsEmployee(b[i + 1])) => AbsAmount(b[i]) >= AbsAmount(b[i + 1])

\* C5: in the returned breakdown every employee entry precedes every entry
\* of another direction, and within each of the two groups consecutive
\* entries are non-increasing in absolute amount.
C5_BreakdownOrder ==
    runState = "done" => EmployeeFirst(result.breakdown) /\ NonIncreasingInGroups(result.breakdown)

\* A run returned three entries that were inserted in the opposite order: a
\* non-employee entry first, then two employee entries of increasing
\* absolute amount, the larger one negative.
C5_Witness ==
    /\ runState = "done"
    /\ Len(breakdown) = 3
    /\ ~IsEmployee(breakdown[1])
    /\ IsEmployee(breakdown[2]) /\ IsEmployee(breakdown[3])
    /\ AbsAmount(breakdown[2]) < AbsAmount(breakdown[3])
    /\ NumOf(breakdown[3].amount) < 0
    /\ result.breakdown = <<breakdown[3], breakdown[2], breakdown[1]>>

CompiledAt(i) ==
    RegistryCompile(document["rules"][i]["type"], document["rules"][i],
                    document["variables"])

FiredBefore(i) == {log[j].id : j \in {k \in 1..(i - 1) : log[k].fired}}

\* C6: the list load_rules builds holds the compiled declarations in the
\* order of the document's rules list, the engine's list is that list, run
\* evaluates it in list order, and the ids a rule's formulas can name are
\* ids of rules at earlier positions that fired.
C6_DeclarationOrder ==
    /\ \A i \in 1..Len(compiled) : compiled[i] = CompiledAt(i)
    /\ loadState = "loaded" =>
          Len(compiled) = Len(document["rules"]) /\ rules = compiled
    /\ \A i \in 1..Len(log) :
          /\ log[i].pos = i
          /\ log[i].id = rules[i].id
          /\ log[i].seen \subseteq FiredBefore(i)

\* Three different declarations were loaded and run; the third rule saw the
\* second, which fired, and not the first, which did not.
C6_Witness ==
    /\ loadState = "loaded"
    /\ Len(rules) = 3
    /\ rules[1].id # rules[2].id /\ rules[2].id # rules[3].id /\ rules[1].id # rules[3].id
    /\ Len(log) = 3
    /\ ~log[1].fired
    /\ log[2].fired
    /\ log[3].seen = {rules[2].id}

\* C7: in a run, the formula `credit * 2` of a rule that comes after the
\* fired rule `credit` evaluates to twice the amount of that rule: the id is
\* bound to the earlier rule's numeric amount.
C7_IdIsAmount ==
    \A i \in 1..Len(log) :
        (log[i].id = "half" /\ "credit" \in log[i].seen) =>
            \E j \in 1..(i - 1) :
                /\ log[j].id = "credit"
                /\ log[j].fired
                /\ log[i].amt = PyBinOp("Mult", log[j].amt, NumV(2))

UnknownAt(i) == document["rules"][i]["type"] \notin {"percentage", "credit"}
CompilesAt(i) == ~UnknownAt(i) /\ ~IsError(CompiledAt(i))
HasUnknown ==
    /\ loadState \in {"loading", "loaded", "failed"}
    /\ \E i \in 1..Len(document["rules"]) : UnknownAt(i)

\* The first declaration that load_rules cannot compile.
FirstBad ==
    CHOOSE i \in 1..Len(document["rules"]) :
        ~CompilesAt(i) /\ \A j \in 1..(i - 1) : CompilesAt(j)

ErrorAt(i) ==
    IF UnknownAt(i)
    THEN Raise("KeyError", "Unknown rule type", document["rules"][i]["type"])
    ELSE CompiledAt(i)

\* C8: when a declaration's type is not a registered key, load_rules never
\* returns a list and no engine is built, however many earlier declarations
\* compiled; it fails at the first declaration it cannot compile, with the
\* unknown-rule-type error when that is the declaration of unregistered
\* type and with that declaration's own error otherwise.
C8_UnknownTypeFailsLoad ==
    HasUnknown =>
        /\ loadState # "loaded"
        /\ rules = <<>>
        /\ runState = "noengine"
        /\ loadPc <= FirstBad
        /\ loadState = "failed" =>
              /\ loadPc = FirstBad
              /\ loadError = ErrorAt(FirstBad)

\* C8 as stated: whenever a declaration's type is not a registered key,
\* load_rules fails with the unknown-rule-type error.
C8_AlwaysUnknownTypeError ==
    HasUnknown =>
        /\ loadState # "loaded"
        /\ loadState = "failed" =>
              /\ loadError.err = "KeyError"
              /\ loadError.msg = "Unknown rule type"

\* load_rules failed with the unknown-rule-type error on the third
\* declaration, after two declarations had compiled.
C8_Witness ==
    /\ HasUnknown
    /\ loadState = "failed"
    /\ Len(compiled) = 2
    /\ loadPc = 3
    /\ loadError = Raise("KeyError", "Unknown rule type", "Percentage")
    /\ rules = <<>>

Raised(i) == IsErr(log[i].amt)

\* C13: when a condition or amount formula raises during a run, the run ends
\* there with that error and returns no result, whatever the breakdown and
\* totals held by then; the engine's rule list stays the list it was built
\* on, and a run after an aborted one returns or raises what the same run
\* does on its own.
C13_AbortReturnsNothing ==
    /\ runState \in {"idle", "running", "done", "error"} => rules = compiled
    /\ \A i \in 1..Len(log) :
          Raised(i) => runState = "error" /\ i = Len(log) /\ runError = log[i].amt
    /\ runState = "error" => result = Nothing /\ IsErr(runError)
    /\ (aborted /\ runState \in {"done", "error"}) => CurrentOutcome = RunOutcome(rules, ctx)

\* A run raised in the formula of its third rule after two rules had fired.
C13_Witness ==
    /\ runState = "error"
    /\ Len(log) = 3
    /\ Raised(3)
    /\ Len(breakdown) = 2
    /\ employee_total # 0
    /\ result = Nothing

IsPermutation(a, b) ==
    /\ Len(a) = Len(b)
    /\ \A i \in 1..Len(a) :
          Cardinality({j \in 1..Len(a) : a[j] = a[i]})
              = Cardinality({j \in 1..Len(b) : b[j] = a[i]})

\* C21: the breakdown run returns holds exactly the entries accumulated by
\* the loop, each once and unaltered, in some order; gross is returned as
\* given, and net and super_gross are gross plus the totals the loop held
\* before the sort.
C21_SortIsPostProcessing ==
    runState = "done" =>
        /\ IsPermutation(result.breakdown, breakdown)
        /\ result.gross = NumOf(ctx.gross)
        /\ result.net = NumOf(ctx.gross) + employee_total
        /\ result.super_gross = NumOf(ctx.gross) + employer_total

\* A run returned a breakdown of two or more entries in another order than
\* the loop inserted them, after a fired rule had overwritten an entry.
C21_Witness ==
    /\ runState = "done"
    /\ Len(breakdown) >= 2
    /\ result.breakdown # breakdown
    /\ Cardinality({i \in 1..Len(log) : log[i].fired}) > Len(breakdown)

\* The breakdown a run holds when its i-th iteration begins.
BreakdownBefore(i) == FoldRules(SubSeq(rules, 1, i - 1), ctx, Frame0).breakdown

\* What the amount formula of the i-th rule returns or raises if it is called.
AmountAt(i) == Invoke(rules[i].amount_fn, ctx, ResultsOf(BreakdownBefore(i)))

CountOf(calls, name) == Cardinality({k \in 1..Len(calls) : calls[k] = name})

\* C24: in every iteration of a run the condition is called once and first;
\* the amount formula is called at most once, after the condition and only
\* when the condition returned a true value; when the condition returned a
\* false value the rule's amount is 0 and the iteration does not raise,
\* whatever the amount formula would do.
C24_ConditionGuardsAmount ==
    \A i \in 1..Len(log) :
        /\ log[i].calls[1] = "condition_fn"
        /\ CountOf(log[i].calls, "condition_fn") = 1
        /\ CountOf(log[i].calls, "amount_fn") <= 1
        /\ CountOf(log[i].calls, "amount_fn") = 1
              <=> (~IsErr(log[i].cond) /\ Truthy(log[i].cond))
        /\ (~IsErr(log[i].cond) /\ ~Truthy(log[i].cond)) =>
              /\ log[i].amt = NumV(0)
              /\ ~Raised(i)
              /\ ~log[i].changed

\* A run returned although the amount formula of one of its rules, whose
\* condition was false, raises when it is called.
C24_Witness ==
    /\ runState = "done"
    /\ \E i \in 1..Len(log) :
          /\ ~IsErr(log[i].cond)
          /\ ~Truthy(log[i].cond)
          /\ IsErr(AmountAt(i))

\* The iterations of the run so far in which a rule of this id fired.
FiredWithId(id) == {k \in 1..Len(log) : log[k].fired /\ log[k].id = id}

LastFired(j) == \A k \in FiredWithId(log[j].id) : k <= j

EntriesWithId(b, id) == {k \in 1..Len(b) : b[k].id = id}

HoldsOnly(b, e) ==
    /\ Cardinality(EntriesWithId(b, e.id)) = 1
    /\ \A k \in EntriesWithId(b, e.id) : b[k] = e

\* C25: a fired rule raises no error for having the id of a rule that fired
\* before it, and the breakdown, during the run and as returned, holds under
\* an id one entry, with the label, amount and direction of the last rule of
\* that id that fired.
C25_LaterEntryOverwrites ==
    \A j \in 1..Len(log) :
        (log[j].fired /\ LastFired(j)) =>
            /\ HoldsOnly(breakdown, Entry(rules[j], log[j].amt))
            /\ runState = "done" => HoldsOnly(result.breakdown, Entry(rules[j], log[j].amt))
            /\ (IsNumeric(log[j].amt) /\ j < Len(log)) => ~Raised(j)
            /\ (IsNumeric(log[j].amt) /\ j = Len(log)) => runState # "error"

\* A run returned after two rules of one id fired with different labels,
\* amounts and directions; the returned breakdown holds the second's entry.
C25_Witness ==
    /\ runState = "done"
    /\ \E i, j \in 1..Len(log) :
          /\ i < j
          /\ log[i].fired /\ log[j].fired
          /\ log[i].id = log[j].id
          /\ LastFired(j)
          /\ rules[i].label # rules[j].label
          /\ rules[i].direction # rules[j].direction
          /\ log[i].amt # log[j].amt
          /\ \E k \in 1..Len(result.breakdown) :
                result.breakdown[k] = Entry(rules[j], log[j].amt)

RECURSIVE SumAmounts(_)
SumAmounts(b) == IF b = <<>> THEN 0 ELSE NumOf(Head(b).amount) + SumAmounts(Tail(b))

\* The sum of the amounts of the rules that fired in the first k iterations
\* and whose entry a later fired rule of the same id replaced.
RECURSIVE SumOverwritten(_)
SumOverwritten(k) ==
    IF k = 0 THEN 0
    ELSE SumOverwritten(k - 1)
            + (IF log[k].fired /\ ~LastFired(k) THEN NumOf(log[k].amt) ELSE 0)

TotalsDelta == (result.net - result.gross) + (result.super_gross - result.gross)

\* C27, amended: (net - gross) + (super_gross - gross) is the sum of the
\* amounts of the returned breakdown plus the amounts of the fired rules
\* whose entry a later fired rule of the same id replaced; the two sides of
\* the stated equation are equal when no two fired rules share an id.
C27_TotalsCountEveryFiredRule ==
    runState = "done" =>
        /\ TotalsDelta = SumAmounts(result.breakdown) + SumOverwritten(Len(log))
        /\ (\A j \in 1..Len(log) : log[j].fired => LastFired(j)) =>
              TotalsDelta = SumAmounts(result.breakdown)

\* C27 as stated: for every rule list, repeated ids included, the two totals
\* add up to the sum of the amounts of the returned breakdown.
C27_TotalsMatchBreakdown ==
    runState = "done" => TotalsDelta = SumAmounts(result.breakdown)

\* A run returned after a fired rule replaced the entry of an earlier fired
\* rule of its id: the totals hold both amounts, the breakdown the later one.
C27_Witness ==
    /\ runState = "done"
    /\ SumOverwritten(Len(log)) # 0
    /\ TotalsDelta # SumAmounts(result.breakdown)
    /\ Len(result.breakdown) >= 2

\* The names a call of one of a rule's functions looks up.
FnLookups(fn, c, results) ==
    IF fn.fn = "expr" THEN Lookups(fn.code, EvalEnv(fn, c, results)) ELSE {}
InvokeLookups(fn, c, results) ==
    IF fn.fn = "pct"
    THEN FnLookups(fn.rf, c, results)
            \cup (IF IsErr(CallFn(fn.rf, c, results)) THEN {}
                  ELSE FnLookups(fn.bf, c, results))
    ELSE FnLookups(fn, c, results)

\* The names the i-th iteration of the run looked up: those of the condition
\* and, when the condition returned a true value, those of the amount.
LookedUpAt(i) ==
    InvokeLookups(rules[i].condition_fn, ctx, ResultsOf(BreakdownBefore(i)))
        \cup (IF ~IsErr(log[i].cond) /\ Truthy(log[i].cond)
              THEN InvokeLookups(rules[i].amount_fn, ctx, ResultsOf(BreakdownBefore(i)))
              ELSE {})

\* The names that occur in a tree, and in the formulas of a rule.
RECURSIVE NamesIn(_)
NamesIn(n) ==
    (IF n.kind = "Name" THEN {n.id} ELSE {})
        \cup UNION {NamesIn(Children(n)[k]) : k \in 1..Len(Children(n))}
FnNames(fn) ==
    IF fn.fn = "expr" THEN NamesIn(fn.code)
    ELSE IF fn.fn = "pct"
         THEN (IF fn.rf.fn = "expr" THEN NamesIn(fn.rf.code) ELSE {})
                 \cup (IF fn.bf.fn = "expr" THEN NamesIn(fn.bf.code) ELSE {})
         ELSE {}
NamedAt(i) == FnNames(rules[i].condition_fn) \cup FnNames(rules[i].amount_fn)

\* The ids of the rules before the i-th of which none has fired.
SkippedBefore(i) == {log[k].id : k \in 1..(i - 1)} \ FiredBefore(i)

\* The names bound whatever has fired.
AlwaysBound ==
    ALLOWED_FUNCTIONS \cup DOMAIN ALLOWED_CONSTANTS \cup DOMAIN document["variables"]
        \cup {"gross", "flags"}

AbortedWithNameError(i) ==
    /\ log[i].amt = ErrV("NameError")
    /\ i = Len(log)
    /\ runState = "error"
    /\ runError = ErrV("NameError")
    /\ result = Nothing

\* C28, amended: when the evaluation of a rule's condition, or of its amount
\* after a true condition, looks up the id of an earlier rule that has not
\* fired in this run, and the id is not the name of a constant, of a
\* whitelisted function, of true/false/null, gross or flags, the evaluation
\* raises NameError and the run ends there without a result; no value is
\* put in the id's place.
C28_SkippedIdIsUnbound ==
    \A i \in 1..Len(log) :
        (\E x \in SkippedBefore(i) \cap LookedUpAt(i) : x \notin AlwaysBound) =>
            AbortedWithNameError(i)

\* C28 as stated: the run aborts whenever a formula of the rule names such an
\* id, whether or not the formula is evaluated.
C28_NamedSkippedIdAborts ==
    \A i \in 1..Len(log) :
        (\E x \in SkippedBefore(i) \cap NamedAt(i) : x \notin DOMAIN document["variables"]) =>
            AbortedWithNameError(i)

\* A run raised NameError in its third iteration, on the id of an earlier
\* rule whose amount was zero, after another rule had fired.
C28_Witness ==
    /\ runState = "error"
    /\ Len(log) = 3
    /\ AbortedWithNameError(3)
    /\ Len(breakdown) >= 1
    /\ \E k \in 1..2 :
          /\ log[k].id \in SkippedBefore(3) \cap LookedUpAt(3)
          /\ log[k].amt = NumV(0)
          /\ ~IsErr(log[k].cond) /\ Truthy(log[k].cond)

(***************************************************************************)
(* The rule compilers alone: one declaration compiled, then the rule's     *)
(* amount, load_rules on the one-declaration document, or a run on the     *)
(* one rule.                                                               *)
(***************************************************************************)
DirectionValues == {"employee", "employer", "neutral", "sideways", ""}

RateFormulas ==
    {Lit(NumV(15)),
     Formula(Name("RATE")),
     Formula(BinOp(Name("gross"), "FloorDiv", Num(100))),
     Formula(Name("nope")),
     Formula(Attribute(Name("flags"), "__class__"))}
BaseFormulas ==
    {Lit(NumV(100)),
     Formula(BinOp(Name("gross"), "Sub", Num(1000))),
     Formula(BinOp(Num(1), "FloorDiv", Num(0)))}
ConditionFormulas ==
    {Formula(Attribute(Name("flags"), "under25")),
     Formula(Compare(Name("gross"), "Lt", Name("MIN_WAGE"))),
     Formula(Lambda(Name("gross")))}

\* A key of a declaration that may be left out.
Field(has, key, v) == IF has THEN [k \in {key} |-> v] ELSE <<>>

PctDecl(rate, dir, base, cond) ==
    Merge(Merge(Merge([type |-> "percentage", id |-> "p", rate |-> rate], dir), base), cond)
CreditDecl(amount, dir, cond) ==
    Merge(Merge([type |-> "credit", id |-> "c", amount |-> amount], dir), cond)

FnArgs(spec, c) == [spec |-> spec, variables |-> Variables, ctx |-> c, results |-> <<>>]

InitCompile ==
    /\ SbIdle
    /\ EngineOff
    /\ OtherIdle
    /\ fnCall = "none"
    /\ fnOut = Nothing
    /\ \E r \in RateFormulas, d \in DirectionValues, b \in BaseFormulas,
          k \in ConditionFormulas, hasDir, hasBase, hasCond \in BOOLEAN,
          g \in GrossValues, fl \in FlagSets :
          \/ fnIn = FnArgs(PctDecl(r, Field(hasDir, "direction", d),
                                   Field(hasBase, "base", b),
                                   Field(hasCond, "condition", k)),
                           [gross |-> NumV(g), flags |-> DictV(fl)])
          \/ fnIn = FnArgs(CreditDecl(r, Field(hasDir, "direction", d),
                                      Field(hasCond, "condition", k)),
                           [gross |-> NumV(g), flags |-> DictV(fl)])

FnUnchanged ==
    /\ UNCHANGED fnIn
    /\ UNCHANGED sbVars
    /\ UNCHANGED loadVars
    /\ UNCHANGED runVars
    /\ UNCHANGED other

\* _RULE_REGISTRY[rtype].compile(spec, variables)
FnCompile ==
    /\ fnCall = "none"
    /\ fnCall' = "compile"
    /\ fnOut' = RegistryCompile(fnIn.spec["type"], fnIn.spec, fnIn.variables)
    /\ FnUnchanged

\* rule.amount(ctx, results) on the rule compile returned
FnAmount ==
    /\ fnCall = "compile"
    /\ ~IsError(fnOut)
    /\ fnCall' = "amount"
    /\ fnOut' = [rule |-> fnOut, amount |-> RuleAmount(fnOut, fnIn.ctx, fnIn.results)]
    /\ FnUnchanged

\* PayrollEngine([rule]).run(gross, **flags) on the rule compile returned
FnRun ==
    /\ fnCall = "compile"
    /\ ~IsError(fnOut)
    /\ fnCall' = "run"
    /\ fnOut' = [rule |-> fnOut, outcome |-> RunOutcome(<<fnOut>>, fnIn.ctx)]
    /\ FnUnchanged

\* load_rules on the document whose rules list holds the one declaration
FnLoad ==
    /\ fnCall = "none"
    /\ fnCall' = "load_rules"
    /\ fnOut' = LoadOne(fnIn.spec, fnIn.variables, <<>>)
    /\ FnUnchanged

NextCompile == FnCompile \/ FnAmount \/ FnRun \/ FnLoad

SpecCompile == InitCompile /\ [][NextCompile]_vars

(***************************************************************************)
(* Properties of the rule compilers.                                       *)
(***************************************************************************)
\* The value of a formula of the declaration in the scenario.
FormulaValue(f) ==
    CallFn(compile_safe_expr(f, fnIn.variables), fnIn.ctx, fnIn.results)

IsPct == fnIn.spec["type"] = "percentage"
IsCredit == fnIn.spec["type"] = "credit"
Declared(key) == key \in DOMAIN fnIn.spec

SignOf(direction) == IF direction = "employee" THEN -1 ELSE 1
RateValue == FormulaValue(fnIn.spec["rate"])
BaseValue == IF Declared("base") THEN FormulaValue(fnIn.spec["base"]) ELSE fnIn.ctx.gross
ConditionHolds ==
    ~Declared("condition")
        \/ (~IsErr(FormulaValue(fnIn.spec["condition"]))
            /\ Truthy(FormulaValue(fnIn.spec["condition"])))

\* C14: the amount of a compiled percentage rule whose condition holds is
\* sign * rate * base, with sign -1 for direction employee (also when the
\* direction is left out) and +1 for employer and neutral, and base the
\* scenario's gross when the declaration has no base; a rate or base that
\* raises makes the amount raise.
C14_PercentageAmount ==
    (fnCall = "amount" /\ IsPct /\ ConditionHolds) =>
        /\ fnOut.rule.direction = Get(fnIn.spec, "direction", "employee")
        /\ (IsNumeric(RateValue) /\ IsNumeric(BaseValue)) =>
              fnOut.amount = NumV(SignOf(fnOut.rule.direction)
                                     * NumOf(RateValue) * NumOf(BaseValue))
        /\ IsErr(RateValue) => fnOut.amount = RateValue
        /\ (IsNumeric(RateValue) /\ IsErr(BaseValue)) => fnOut.amount = BaseValue

\* A neutral percentage rule without base gave rate * gross, a positive
\* amount.
C14_Witness ==
    /\ fnCall = "amount"
    /\ IsPct
    /\ ~Declared("base")
    /\ Declared("condition")
    /\ fnOut.rule.direction = "neutral"
    /\ fnIn.spec["rate"] = Formula(Name("RATE"))
    /\ fnOut.amount = NumV(2 * NumOf(fnIn.ctx.gross))

\* C15: the amount of a compiled credit rule whose condition holds is the
\* value of its amount formula for every direction, its direction is
\* neutral when the declaration has none, and a run on an employee credit
\* of positive amount raises net by that amount.
C15_CreditAmount ==
    /\ (fnCall \in {"amount", "run"} /\ IsCredit) =>
          fnOut.rule.direction = Get(fnIn.spec, "direction", "neutral")
    /\ (fnCall = "amount" /\ IsCredit /\ ConditionHolds) =>
          fnOut.amount = FormulaValue(fnIn.spec["amount"])
    /\ (fnCall = "run" /\ IsCredit /\ ConditionHolds
            /\ IsNumeric(FormulaValue(fnIn.spec["amount"]))
            /\ fnOut.rule.direction = "employee") =>
          /\ ~fnOut.outcome.raised
          /\ fnOut.outcome.result.net
                = NumOf(fnIn.ctx.gross) + NumOf(FormulaValue(fnIn.spec["amount"]))
          /\ fnOut.outcome.result.super_gross = NumOf(fnIn.ctx.gross)

\* A run on an employee credit of +15 returned net = gross + 15.
C15_Witness ==
    /\ fnCall = "run"
    /\ IsCredit
    /\ Declared("direction")
    /\ fnOut.rule.direction = "employee"
    /\ fnIn.spec["amount"] = Lit(NumV(15))
    /\ ~fnOut.outcome.raised
    /\ fnOut.outcome.result.net = NumOf(fnIn.ctx.gross) + 15

InvalidDirection == Declared("direction") /\ fnIn.spec["direction"] \notin DIRECTIONS

\* The formulas of the declaration, in the order the compilers compile them.
FormulasOf(spec) ==
    (IF spec["type"] = "percentage"
     THEN <<spec["rate"], Get(spec, "base", Formula(Name("gross")))>>
     ELSE <<spec["amount"]>>)
        \o (IF "condition" \in DOMAIN spec THEN <<spec["condition"]>> ELSE <<>>)

FormulaFails(f) == IsStr(f) /\ IsError(PyCompile(f))
FormulasCompile == \A i \in 1..Len(FormulasOf(fnIn.spec)) : ~FormulaFails(FormulasOf(fnIn.spec)[i])
FirstFailing ==
    CHOOSE i \in 1..Len(FormulasOf(fnIn.spec)) :
        /\ FormulaFails(FormulasOf(fnIn.spec)[i])
        /\ \A j \in 1..(i - 1) : ~FormulaFails(FormulasOf(fnIn.spec)[j])

InvalidDirectionError == Raise("ValueError", "invalid direction", fnIn.spec["id"])

\* C16: compiling a percentage or credit declaration whose direction is not
\* one of employee, employer, neutral produces no CompiledRule, and
\* load_rules returns no list: the error is the invalid-direction error when
\* the declaration's formulas compile, and the sandbox error of the first
\* formula that does not compile otherwise.
C16_InvalidDirectionFailsCompile ==
    InvalidDirection =>
        /\ fnCall \notin {"amount", "run"}
        /\ fnCall = "compile" =>
              /\ IsError(fnOut)
              /\ fnOut = (IF FormulasCompile THEN InvalidDirectionError
                          ELSE PyCompile(FormulasOf(fnIn.spec)[FirstFailing]))
        /\ fnCall = "load_rules" =>
              /\ fnOut.failed
              /\ fnOut.compiled = <<>>
              /\ fnOut.error
                    = (IF FormulasCompile THEN InvalidDirectionError
                       ELSE PyCompile(FormulasOf(fnIn.spec)[FirstFailing]))

\* C16 as stated: the failure is always the invalid-direction error.
C16_AlwaysInvalidDirectionError ==
    (InvalidDirection /\ fnCall = "compile") => fnOut = InvalidDirectionError

\* Compiling a percentage declaration of direction "sideways" whose three
\* formulas compile raised the invalid-direction error.
C16_Witness ==
    /\ fnCall = "compile"
    /\ IsPct
    /\ Declared("base") /\ Declared("condition")
    /\ InvalidDirection
    /\ fnIn.spec["direction"] = "sideways"
    /\ FormulasCompile
    /\ fnOut = InvalidDirectionError

(***************************************************************************)
(* get_flags alone: an engine built on a loaded document, then get_flags   *)
(* or _extract_flags_from_docstring on one of its docstrings.              *)
(***************************************************************************)
Flag(name) == Attribute(Name("flags"), name)

FlagCredit ==
    [type |-> "credit", id |-> "family",
     amount |-> Formula(BinOp(Flag("kids"), "Mult", Num(10))),
     condition |-> Formula(BoolOp("And", Flag("under25"), Flag("student")))]
FlagPct ==
    [type |-> "percentage", id |-> "bonus",
     rate |-> Formula(Flag("bonus_rate")),
     base |-> Formula(BinOp(Name("gross"), "Mult", Flag("scale"))),
     condition |-> Formula(Flag("under25"))]
FlagNone ==
    [type |-> "credit", id |-> "flat", amount |-> Lit(NumV(10))]
FlagOtherName ==
    [type |-> "credit", id |-> "other",
     amount |-> Formula(Attribute(Name("myflags"), "x"))]
FlagInString ==
    [type |-> "credit", id |-> "text", amount |-> Lit(NumV(100)),
     condition |-> Formula(Compare(Str("flags.z"), "Eq", Str("a")))]
FlagAgain ==
    [type |-> "credit", id |-> "again", amount |-> Formula(Flag("kids"))]
FlagPctPlain ==
    [type |-> "percentage", id |-> "plain", rate |-> Lit(NumV(3))]

FlagDecls ==
    {FlagCredit, FlagPct, FlagNone, FlagOtherName, FlagInString, FlagAgain, FlagPctPlain}

InitFlags ==
    /\ SbIdle
    /\ EngineOff
    /\ OtherIdle
    /\ fnCall = "none"
    /\ fnOut = Nothing
    /\ \E n \in 0..MaxRules : \E specs \in [1..n -> FlagDecls] :
          fnIn = [specs |-> specs,
                  rules |-> load_rules([variables |-> Variables, rules |-> specs]).compiled]

\* engine.get_flags()
FnGetFlags ==
    /\ fnCall = "none"
    /\ fnCall' = "get_flags"
    /\ fnOut' = get_flags(fnIn.rules)
    /\ FnUnchanged

\* PayrollEngine._extract_flags_from_docstring on one docstring of the rules
FnExtract ==
    /\ fnCall = "none"
    /\ fnCall' = "_extract_flags_from_docstring"
    /\ \E i \in 1..Len(fnIn.rules) :
       \E fn \in {fnIn.rules[i].condition_fn, fnIn.rules[i].amount_fn} :
          /\ DocOf(fn) # NoneV
          /\ fnOut' = [docstring |-> DocOf(fn).s,
                       flags |-> extract_flags_from_docstring(DocOf(fn).s)]
    /\ FnUnchanged

NextFlags == FnGetFlags \/ FnExtract

SpecFlags == InitFlags /\ [][NextFlags]_vars

(***************************************************************************)
(* Properties of get_flags.                                                *)
(***************************************************************************)
\* The flag names a tree accesses on the identifier flags.
RECURSIVE FlagsIn(_)
FlagsIn(n) ==
    (IF n.kind = "Attribute" /\ n.value.kind = "Name" /\ n.value.id = "flags"
     THEN {n.attr} ELSE {})
        \cup UNION {FlagsIn(Children(n)[i]) : i \in 1..Len(Children(n))}

FormulaFlags(f) == IF IsStr(f) THEN FlagsIn(f) ELSE {}

\* The flag names accessed in the formulas of a declaration: its condition
\* and its amount, or its rate and base.
DeclFlags(spec) ==
    UNION {FormulaFlags(spec[k]) : k \in DOMAIN spec \cap {"condition", "amount", "rate", "base"}}

ReferencedFlags == UNION {DeclFlags(fnIn.specs[i]) : i \in 1..Len(fnIn.specs)}
Returned == {fnOut[i] : i \in 1..Len(fnOut)}

\* C17: get_flags returns every flag name that a rule's condition, amount,
\* rate or base formula accesses as flags.X, each name once and in sorted
\* order.
C17_EveryReferencedFlag ==
    fnCall = "get_flags" =>
        /\ ReferencedFlags \subseteq Returned
        /\ \A i, j \in 1..Len(fnOut) : i < j => StrLess(fnOut[i], fnOut[j], 1)

\* C18: get_flags returns only names that a formula accesses on the
\* identifier flags.
C18_OnlyReferencedFlags ==
    fnCall = "get_flags" => Returned \subseteq ReferencedFlags

(***************************************************************************)
(* Name resolution alone: one formula compiled over a constants table and  *)
(* called on a scenario and prior results, or evaluated by safe_eval.      *)
(***************************************************************************)
LayerNames == {"true", "false", "null", "MIN_WAGE", "rule1", "gross", "flags", "abs", "nope"}
FlagsAB == Attribute(Attribute(Name("flags"), "a"), "b")
ConstantCK == Attribute(Name("C"), "k")

NameFormulas ==
    {Name(n) : n \in LayerNames} \cup {FlagsAB, ConstantCK, Flag("under25")}

NameConstants ==
    {<<>>,
     [MIN_WAGE |-> NumV(3), C |-> DictV([k |-> NumV(1)])],
     [true |-> NumV(7), MIN_WAGE |-> NumV(3), rule1 |-> NumV(9), gross |-> NumV(77),
      flags |-> NumV(78), abs |-> NumV(5), C |-> DictV([k |-> NumV(2)])]}

NameResults ==
    {<<>>,
     [rule1 |-> NumV(5)],
     [true |-> NumV(8), MIN_WAGE |-> NumV(4), rule1 |-> NumV(5), gross |-> NumV(66),
      flags |-> NumV(55)]}

NameCtxs ==
    {[gross |-> NumV(4),
      flags |-> DictV([under25 |-> BoolV(TRUE), a |-> DictV([b |-> NumV(7)])])],
     [gross |-> NumV(0),
      flags |-> DictV([under25 |-> BoolV(FALSE), a |-> DictV([b |-> NumV(8)])])]}

InitNames ==
    /\ SbIdle
    /\ EngineOff
    /\ OtherIdle
    /\ fnCall = "none"
    /\ fnOut = Nothing
    /\ \E e \in NameFormulas, k \in NameConstants, r \in NameResults, c \in NameCtxs :
          fnIn = [expr |-> Expression(e), constants |-> k, results |-> r, ctx |-> c]

\* fn(ctx, results) on what compile_safe_expr returned (a closure or the
\* exception it raised).
CallCompiled(fn, c, results) == IF IsClosure(fn) THEN CallFn(fn, c, results) ELSE fn

\* compile_safe_expr(expr, constants)(ctx, results)
FnResolve ==
    /\ fnCall = "none"
    /\ fnCall' = "compile_safe_expr"
    /\ fnOut' = CallCompiled(compile_safe_expr(fnIn.expr, fnIn.constants),
                             fnIn.ctx, fnIn.results)
    /\ FnUnchanged

\* safe_eval(expr, {**constants, "gross": gross, "flags": flags})
FnSafeEval ==
    /\ fnCall = "none"
    /\ fnCall' = "safe_eval"
    /\ fnOut' = safe_eval(fnIn.expr, Merge(fnIn.constants, fnIn.ctx))
    /\ FnUnchanged

NextNames == FnResolve \/ FnSafeEval

SpecNames == InitNames /\ [][NextNames]_vars

(***************************************************************************)
(* Properties of name resolution.                                          *)
(***************************************************************************)
ResolvedName == fnIn.expr.body.id

\* The value of the highest layer that binds the name, the layers being, from
\* the lowest, true/false/null, the constants table, the prior results,
\* gross, flags.
HighestLayer(n) ==
    IF n = "flags" THEN to_namespace(fnIn.ctx.flags)
    ELSE IF n = "gross" THEN fnIn.ctx.gross
    ELSE IF n \in DOMAIN fnIn.results THEN fnIn.results[n]
    ELSE IF n \in DOMAIN fnIn.constants THEN fnIn.constants[n]
    ELSE ALLOWED_CONSTANTS[n]

InSomeLayer(n) ==
    n \in {"flags", "gross"} \cup DOMAIN fnIn.results \cup DOMAIN fnIn.constants
              \cup DOMAIN ALLOWED_CONSTANTS

\* C22: a name bound in one or more of the layers true/false/null, constants
\* table, prior results, gross, flags evaluates in a compiled formula to its
\* value in the highest of the layers that bind it.
C22_LayerPrecedence ==
    (fnCall = "compile_safe_expr" /\ fnIn.expr.body.kind = "Name"
        /\ InSomeLayer(ResolvedName)) => fnOut = HighestLayer(ResolvedName)

\* The name rule1, bound to 9 in the constants table and to 5 in the prior
\* results, evaluated to 5.
C22_Witness ==
    /\ fnCall = "compile_safe_expr"
    /\ fnIn.expr.body = Name("rule1")
    /\ "rule1" \in DOMAIN fnIn.constants
    /\ "rule1" \in DOMAIN fnIn.results
    /\ fnIn.constants["rule1"] # fnIn.results["rule1"]
    /\ fnOut = NumV(5)

\* C23: in a formula compiled by compile_safe_expr, flags.a.b evaluates to
\* the inner value of the nested mapping flag a, and C.k evaluates to the
\* value at k of the mapping the constants table binds to C.
C23_DottedAccess ==
    fnCall = "compile_safe_expr" =>
        /\ fnIn.expr.body = FlagsAB => fnOut = fnIn.ctx.flags.d["a"].d["b"]
        /\ (fnIn.expr.body = ConstantCK /\ "C" \in DOMAIN fnIn.constants) =>
              fnOut = fnIn.constants["C"].d["k"]

(***************************************************************************)
(* Two calls of run on one engine, their iterations interleaved.  The      *)
(* first call is the one of RunStart, RunStep and RunFinish; `other` is    *)
(* the frame of the second call.                                           *)
(***************************************************************************)
SharedVariables ==
    [RATE |-> NumV(2), MIN_WAGE |-> NumV(1000),
     BRACKETS |-> ListV("BRACKETS", <<NumV(10), NumV(20)>>)]

DeclPop ==
    [type |-> "credit", id |-> "pop", direction |-> "employee",
     amount |-> Formula(Call(Attribute(Name("BRACKETS"), "pop"), <<>>))]

SharedDecls == {DeclTax, DeclTop, DeclPop}

OtherOff ==
    [state |-> "idle", ctx |-> Nothing, pos |-> 0, breakdown |-> <<>>,
     employee_total |-> 0, employer_total |-> 0, result |-> Nothing,
     error |-> Nothing]

InitShared ==
    /\ SbIdle
    /\ FnIdle
    /\ \E n \in 0..MaxRules : \E rs \in [1..n -> SharedDecls] :
          /\ document = [variables |-> SharedVariables, rules |-> rs]
          /\ compiled = load_rules([variables |-> SharedVariables, rules |-> rs]).compiled
          /\ rules = load_rules([variables |-> SharedVariables, rules |-> rs]).compiled
    /\ loadPc = Len(document["rules"]) + 1
    /\ loadState = "loaded"
    /\ loadError = Nothing
    /\ runState = "idle"
    /\ ctx = Nothing
    /\ pos = 0
    /\ breakdown = <<>>
    /\ employee_total = 0
    /\ employer_total = 0
    /\ result = Nothing
    /\ runError = Nothing
    /\ log = <<>>
    /\ aborted = FALSE
    /\ other = OtherOff

OtherFrame ==
    Frame("running", other.breakdown, other.employee_total, other.employer_total, Nothing)

\* The first call of run on the engine.
FirstStart == runState = "idle" /\ RunStart

\* The second call of run(gross, **flags): the assignments before the loop.
OtherStart ==
    /\ other.state = "idle"
    /\ \E g \in GrossValues, fl \in FlagSets :
          other' = [OtherOff EXCEPT !.state = "running", !.pos = 1,
                                    !.ctx = [gross |-> NumV(g), flags |-> DictV(fl)]]
    /\ UNCHANGED loadVars
    /\ UNCHANGED runVars
    /\ UNCHANGED sbVars
    /\ UNCHANGED fnVars

OtherStepTo(f) ==
    other' = [other EXCEPT !.state = f.state,
                           !.breakdown = f.breakdown,
                           !.employee_total = f.employee_total,
                           !.employer_total = f.employer_total,
                           !.error = f.error,
                           !.pos = IF f.state = "error" THEN other.pos ELSE other.pos + 1]

\* One iteration of the second call's `for rule in self.rules`.
OtherStep ==
    /\ other.state = "running"
    /\ other.pos <= Len(rules)
    /\ OtherStepTo(StepRule(rules[other.pos], other.ctx, OtherFrame))
    /\ rules' = RulesAfter(rules, RulePops(rules[other.pos], other.ctx,
                                           ResultsOf(other.breakdown)))
    /\ UNCHANGED <<runState, ctx, pos, breakdown, employee_total, employer_total,
                   result, runError, log, aborted>>
    /\ UNCHANGED loadVars
    /\ UNCHANGED sbVars
    /\ UNCHANGED fnVars

\* The second call's loop is over: totals, sort, return.
OtherFinish ==
    /\ other.state = "running"
    /\ other.pos > Len(rules)
    /\ other' = [other EXCEPT !.state = "done",
                              !.result = Finish(other.ctx, OtherFrame)]
    /\ UNCHANGED loadVars
    /\ UNCHANGED runVars
    /\ UNCHANGED sbVars
    /\ UNCHANGED fnVars

NextShared == FirstStart \/ RunStep \/ RunFinish \/ OtherStart \/ OtherStep \/ OtherFinish

SpecShared == InitShared /\ [][NextShared]_vars

(***************************************************************************)
(* Properties of concurrent runs.                                          *)
(***************************************************************************)
OtherOutcome ==
    [raised |-> other.state = "error", result |-> other.result, error |-> other.error]

\* What a call alone on the engine as it was built holds after its first k
\* iterations.
Alone(c, k) == FoldRules(SubSeq(compiled, 1, k), c, Frame0)

\* C19: with two calls of run interleaved on one engine, each call holds
\* after every iteration the breakdown and totals the same call holds when it
\* runs alone on that engine, and returns or raises what it returns or raises
\* alone.
C19_RunsAreIsolated ==
    /\ runState = "running" =>
          Frame("running", breakdown, employee_total, employer_total, Nothing)
              = Alone(ctx, pos - 1)
    /\ runState \in {"done", "error"} => CurrentOutcome = RunOutcome(compiled, ctx)
    /\ other.state = "running" => OtherFrame = Alone(other.ctx, other.pos - 1)
    /\ other.state \in {"done", "error"} => OtherOutcome = RunOutcome(compiled, other.ctx)

(***************************************************************************)
(* The sandbox alone: formulas handed to compile_safe_expr and safe_eval.   *)
(***************************************************************************)
Leaves == {Num(2), Str("s"), Name("gross"), Name("flags"), Name("rule1")}

\* The constructs a formula is grown by.
WrapKinds ==
    {"USub", "Not", "Invert", "Add", "Div", "BitOr", "And", "Lt", "In", "Is",
     "Call", "CallKw", "Attribute", "Private", "Subscript", "Slice",
     "List", "Tuple", "Dict", "IfExp", "Lambda", "Method", "Or"}

\* The formula one construct larger than e.
Wrap(w, e) ==
    CASE w = "USub" -> UnaryOp("USub", e)
      [] w = "Not" -> UnaryOp("Not", e)
      [] w = "Invert" -> UnaryOp("Invert", e)
      [] w = "Add" -> BinOp(e, "Add", Num(2))
      [] w = "Div" -> BinOp(e, "Div", Num(1))
      [] w = "BitOr" -> BinOp(e, "BitOr", Num(2))
      [] w = "And" -> BoolOp("And", e, Name("true"))
      [] w = "Lt" -> Compare(e, "Lt", Num(2))
      [] w = "In" -> Compare(e, "In", Name("flags"))
      [] w = "Is" -> Compare(e, "Is", Name("null"))
      [] w = "Call" -> Call(Name("abs"), <<e>>)
      [] w = "CallKw" -> CallKw(Name("max"), <<e, Num(2)>>, <<Keyword("key", Num(2))>>)
      [] w = "Attribute" -> Attribute(e, "under25")
      [] w = "Private" -> Attribute(e, "__class__")
      [] w = "Subscript" -> Subscript(e, Str("amount"))
      [] w = "Slice" -> Subscript(e, Slice(Num(0), Num(2)))
      [] w = "List" -> List(<<e>>)
      [] w = "Tuple" -> Tuple(<<e, Num(2)>>)
      [] w = "Dict" -> Dict(Str("k"), e)
      [] w = "IfExp" -> IfExp(e, Num(2), Num(2))
      [] w = "Method" -> Call(Attribute(e, "upper"), <<>>)
      [] w = "Or" -> BoolOp("Or", Name("true"), e)
      [] OTHER -> Lambda(e)

\* The formula grown from a leaf by the constructs of `path`, innermost first.
RECURSIVE Grow(_, _, _)
Grow(path, k, e) == IF k > Len(path) THEN e ELSE Grow(path, k + 1, Wrap(path[k], e))

\* Every operator of Python's expression grammar, once.
BinOps ==
    {"Add", "Sub", "Mult", "Div", "FloorDiv", "Mod", "Pow",
     "MatMult", "LShift", "RShift", "BitOr", "BitXor", "BitAnd"}
CmpOps == {"Eq", "NotEq", "Lt", "LtE", "Gt", "GtE", "Is", "IsNot", "In", "NotIn"}
OperatorExprs ==
    {BinOp(Num(7), op, Num(2)) : op \in BinOps}
        \cup {Compare(Num(7), op, Num(2)) : op \in CmpOps}
        \cup {BoolOp(op, Num(0), Num(2)) : op \in {"And", "Or"}}
        \cup {UnaryOp(op, Num(2)) : op \in {"UAdd", "USub", "Not", "Invert"}}

\* The formulas that are not grown: one per operator, an unparsable string
\* and two non-string values.
PopBrackets == Call(Attribute(Name("BRACKETS"), "pop"), <<>>)

\* The formulas that are not grown: one per operator, a method call on a list
\* constant, an unparsable string and two non-string values.
FlatFormulas ==
    {Expression(e) : e \in OperatorExprs}
        \cup {Expression(PopBrackets), Unparsable, Lit(NumV(42)), Lit(BoolV(TRUE))}

Brackets == ListV("BRACKETS", <<NumV(10), NumV(20)>>)
SbConstants == [MIN_WAGE |-> NumV(3), BRACKETS |-> Brackets]
SbCtxs ==
    {[gross |-> NumV(4), flags |-> DictV([under25 |-> BoolV(TRUE)])],
     [gross |-> NumV(0), flags |-> DictV([under25 |-> BoolV(FALSE)])]}
SbResults == {<<>>, [rule1 |-> NumV(5)]}
SbLocalEnvs ==
    {<<>>, [gross |-> NumV(4), flags |-> DictV([under25 |-> BoolV(TRUE)]),
            rule1 |-> NumV(5)]}

SbInit ==
    /\ \/ sbExpr \in FlatFormulas
       \/ \E d \in 0..MaxDepth : \E path \in [1..d -> WrapKinds] : \E leaf \in Leaves :
             sbExpr = Expression(Grow(path, 1, leaf))
    /\ sbEntry = "none"
    /\ sbClosure = Nothing
    /\ sbEvals = 0
    /\ sbValue = Nothing
    /\ sbSeen = {}
    /\ EngineOff
    /\ OtherIdle
    /\ FnIdle

\* What the history keeps of one eval(): its locals and its outcome.
Seen(env, v) == [env |-> env, v |-> v]
\* The same of one call of a closure, with the arguments of the call.
SeenCall(env, v, c, results) == [env |-> env, v |-> v, args |-> <<c, results>>]

\* compile_safe_expr(expr, constants)
SbCompile ==
    /\ sbEntry = "none"
    /\ sbEntry' = "compile_safe_expr"
    /\ sbClosure' = compile_safe_expr(sbExpr, SbConstants)
    /\ UNCHANGED <<sbExpr, sbEvals, sbValue, sbSeen>>
    /\ UNCHANGED loadVars
    /\ UNCHANGED runVars
    /\ UNCHANGED <<other, fnVars>>

\* fn(ctx, results) on the closure compile_safe_expr returned
SbCall ==
    /\ sbEntry = "compile_safe_expr"
    /\ IsClosure(sbClosure)
    /\ sbEvals < MaxCalls
    /\ \E c \in SbCtxs, r \in SbResults :
          /\ sbValue' = CallFn(sbClosure, c, r)
          /\ sbSeen' = IF sbClosure.fn = "lit" THEN sbSeen
                        ELSE sbSeen \cup {SeenCall(EvalEnv(sbClosure, c, r),
                                                   CallFn(sbClosure, c, r), c, r)}
          /\ sbClosure' = FnAfter(sbClosure, FnPops(sbClosure, c, r))
    /\ sbEvals' = sbEvals + 1
    /\ UNCHANGED <<sbExpr, sbEntry>>
    /\ UNCHANGED loadVars
    /\ UNCHANGED runVars
    /\ UNCHANGED <<other, fnVars>>

\* What safe_eval leaves: the value or exception, and whether eval() ran.
SbSafeEvalTo(v, ran, env) ==
    /\ sbValue' = v
    /\ sbEvals' = IF ran THEN 1 ELSE 0
    /\ sbSeen' = IF ran THEN {Seen(env, v)} ELSE {}

\* safe_eval(expr, local_env)
SbSafeEval ==
    /\ sbEntry = "none"
    /\ sbEntry' = "safe_eval"
    /\ \E env \in SbLocalEnvs :
          SbSafeEvalTo(safe_eval(sbExpr, env),
                       IsStr(sbExpr) /\ ~IsError(PyCompile(sbExpr)),
                       SafeEvalEnv(env))
    /\ UNCHANGED <<sbExpr, sbClosure>>
    /\ UNCHANGED loadVars
    /\ UNCHANGED runVars
    /\ UNCHANGED <<other, fnVars>>

SbNext == SbCompile \/ SbCall \/ SbSafeEval

SpecSandbox == SbInit /\ [][SbNext]_vars

(***************************************************************************)
(* Properties of the sandbox.                                              *)
(***************************************************************************)
Parsed(expr) == "kind" \in DOMAIN expr

\* The tree has, at some depth, a node outside the whitelist or an attribute
\* access whose name begins with an underscore.
RECURSIVE HasForbidden(_)
HasForbidden(n) ==
    \/ n.kind \notin ALLOWED_NODES
    \/ n.kind = "Attribute" /\ StartsWithUnderscore(n.attr)
    \/ \E i \in 1..Len(Children(n)) : HasForbidden(Children(n)[i])

IsSandboxError(v) == IsError(v) /\ v.err = "SafeEvalError"

\* C9: for a formula whose tree has, at any depth, a node outside the
\* whitelist or an underscore attribute access, compile_safe_expr and
\* safe_eval raise the sandbox error, eval() never runs on the formula and
\* no closure is produced.
C9_ForbiddenNeverRuns ==
    (Parsed(sbExpr) /\ HasForbidden(sbExpr)) =>
        /\ sbEvals = 0
        /\ sbEntry = "compile_safe_expr" =>
              /\ IsSandboxError(sbClosure)
              /\ ~IsClosure(sbClosure)
              /\ sbValue = Nothing
        /\ sbEntry = "safe_eval" => IsSandboxError(sbValue)

\* compile_safe_expr raised on a formula whose outer two constructs are
\* whitelisted and whose forbidden node lies below them.
C9_Witness ==
    /\ Parsed(sbExpr)
    /\ sbEntry = "compile_safe_expr"
    /\ sbExpr.body.kind = "BinOp"
    /\ sbExpr.body.left.kind \in {"Call", "Compare", "Attribute"}
    /\ ~StartsWithUnderscore(Get(sbExpr.body.left, "attr", ""))
    /\ HasForbidden(sbExpr.body.left)
    /\ IsSandboxError(sbClosure)

\* The grammar of the specification: arithmetic, unary, boolean and
\* comparison operators, literals, identifiers, attribute access and calls.
SpecGrammar ==
    {"Expression", "Constant", "Name", "Load", "Attribute", "Call",
     "BinOp", "Add", "Sub", "Mult", "Div", "FloorDiv", "Mod", "Pow",
     "UnaryOp", "UAdd", "USub", "Not",
     "BoolOp", "And", "Or",
     "Compare", "Eq", "NotEq", "Lt", "LtE", "Gt", "GtE"}

RECURSIVE OnlyKinds(_, _)
OnlyKinds(n, kinds) ==
    /\ n.kind \in kinds
    /\ \A i \in 1..Len(Children(n)) : OnlyKinds(Children(n)[i], kinds)

RECURSIVE HasPrivate(_)
HasPrivate(n) ==
    \/ n.kind = "Attribute" /\ StartsWithUnderscore(n.attr)
    \/ \E i \in 1..Len(Children(n)) : HasPrivate(Children(n)[i])

\* The helper that was called let the formula through the validator.
Accepted ==
    \/ sbEntry = "compile_safe_expr" /\ IsClosure(sbClosure)
    \/ sbEntry = "safe_eval" /\ sbEvals = 1

\* C10: the validator accepts a formula exactly when every node of its tree
\* belongs to the grammar of the specification or is a subscript x[y], and
\* no attribute name begins with an underscore; slices, list, tuple and dict
\* displays, conditional expressions, lambdas, keyword arguments, bitwise
\* operators and `in`/`is` comparisons are rejected at compile time.
C10_GrammarWithSubscript ==
    (Parsed(sbExpr) /\ sbEntry # "none") =>
        (Accepted <=>
            (OnlyKinds(sbExpr, SpecGrammar \cup {"Subscript"}) /\ ~HasPrivate(sbExpr)))

\* C10 as stated: every accepted formula has only nodes of the grammar of
\* the specification, so that subscripting is rejected.
C10_GrammarOnly ==
    (Parsed(sbExpr) /\ Accepted) => OnlyKinds(sbExpr, SpecGrammar)

\* compile_safe_expr returned a closure for a formula with a subscript, and
\* the closure was called.
C10_Witness ==
    /\ Parsed(sbExpr)
    /\ sbEntry = "compile_safe_expr"
    /\ IsClosure(sbClosure)
    /\ sbExpr.body.kind = "Subscript"
    /\ sbEvals >= 1

IsWhitelistedFunction(f) == f.t = "fn" /\ f.f \in ALLOWED_FUNCTIONS

\* C11: every call performed while a validated formula is evaluated invokes
\* one of the seven whitelisted functions.
C11_OnlyWhitelistedCalls ==
    \A x \in sbSeen : \A e \in Calls(sbExpr, x.env) : IsWhitelistedFunction(e.call)

\* C12: when the evaluation of a validated formula reaches a name bound in
\* none of the layers of its environment, it raises NameError, which is not
\* the sandbox error; no evaluation ever raises the sandbox error, and no
\* value is put in the name's place.
C12_UnboundNameRaisesNameError ==
    \A x \in sbSeen :
        /\ ~IsError(x.v)
        /\ (\E id \in Lookups(sbExpr, x.env) : id \notin DOMAIN x.env) =>
              x.v = ErrV("NameError")

\* C12 as stated: the evaluation fails with the sandbox error.
C12_UnboundNameRaisesSandboxError ==
    \A x \in sbSeen :
        (\E id \in Lookups(sbExpr, x.env) : id \notin DOMAIN x.env) => IsSandboxError(x.v)

\* The closure of a formula with two constructs around the name rule1 was
\* called without prior results and raised NameError.
C12_Witness ==
    /\ Parsed(sbExpr)
    /\ sbEntry = "compile_safe_expr"
    /\ IsClosure(sbClosure)
    /\ sbExpr.body.kind \in {"BinOp", "Compare"}
    /\ sbExpr.body.left.kind \in {"UnaryOp", "Call", "Subscript"}
    /\ sbValue = ErrV("NameError")
    /\ \E x \in sbSeen : "rule1" \in Lookups(sbExpr, x.env) /\ "rule1" \notin DOMAIN x.env

\* The formula has only constructs of the whitelist.
Whitelisted(expr) ==
    Parsed(expr) /\ OnlyKinds(expr, SpecGrammar) /\ ~HasPrivate(expr)

\* C20: compile_safe_expr returns a closure for every formula built only
\* from whitelisted syntax, and two calls of the closure with the same
\* scenario and the same prior results return the same value.
C20_CompilesAndRepeats ==
    /\ (Whitelisted(sbExpr) /\ sbEntry = "compile_safe_expr") => IsClosure(sbClosure)
    /\ \A x, y \in {z \in sbSeen : "args" \in DOMAIN z} : x.args = y.args => x.v = y.v

\* C26: calls of a compiled formula leave the constants captured at compile
\* time as they were: after any number of calls the closure is the closure
\* compile_safe_expr returned.
C26_CallsLeaveStateUnchanged ==
    (sbEntry = "compile_safe_expr" /\ IsClosure(sbClosure)) =>
        sbClosure = compile_safe_expr(sbExpr, SbConstants)

====
